---- MODULE Spec2Model ----
(***************************************************************************)
(* Model of torch/_dynamo/resume_execution.py: the continuation cache      *)
(* (ContinueExecutionCache), the resume-function synthesis (generate /    *)
(* update) and the redirect through the original code object.             *)
(*                                                                         *)
(* A code object is a record; its instruction stream is a sequence of     *)
(* instruction records.  Inside a transformation an instruction is named  *)
(* by its "id" (Python object identity): the instructions read from a     *)
(* code object carry their offset as id, synthesized instructions carry a *)
(* negative id.  Assembly gives every instruction of the final stream a   *)
(* new offset (two bytes per instruction) and resolves ids to offsets.    *)
(***************************************************************************)
EXTENDS Integers, Sequences, FiniteSets, TLC

\* ---- code.h flag bits (a flag word is modelled as the set of its bits) ----
CO_OPTIMIZED == 1
CO_NEWLOCALS == 2
CO_VARARGS == 4
CO_VARKEYWORDS == 8
CO_NESTED == 16
CO_GENERATOR == 32
CO_NOFREE == 64
CO_COROUTINE == 128
CO_ITERABLE_COROUTINE == 256
CO_ASYNC_GENERATOR == 512

TORCH_DYNAMO_RESUME_IN_PREFIX == "torch_dynamo_resume_in"

\* ---- bounds of the model ----
MaxGen == 3
MaxNstack == 2
MaxArgs == 2
Lines == {1, 2}

\* sys.version_info of the host interpreter, as 100 * major + minor
Eras == {310, 311, 312}
\* the eras the cache protocol differs on (structural exception regions or not)
CacheEras == {310, 311}

\* ---- generic helpers ----
NoOff == -1
NoId == -1
NoLine == 0
InstSize == 2
IdStride == 20

Range(s) == {s[i] : i \in DOMAIN s}

Max(S) == CHOOSE m \in S : \A x \in S : x <= m

Put(f, k, v) == [x \in (DOMAIN f) \cup {k} |-> IF x = k THEN v ELSE f[x]]

Reverse(s) == [i \in 1..Len(s) |-> s[Len(s) + 1 - i]]

RECURSIVE Concat(_)
Concat(ss) == IF ss = <<>> THEN <<>> ELSE Head(ss) \o Concat(Tail(ss))

\* f"___stack{i}"
StackNames == <<"___stack0", "___stack1", "___stack2", "___stack3">>
StackName(i) == StackNames[i + 1]

\* str(lineno) inside the f-string of the new co_name
LineStr(l) == <<"1", "2", "3">>[l]

\* the order sorted() puts the variable names in
NameOrder == <<"___stack0", "___stack1", "___stack2", "___stack3", "args", "b", "c", "k", "kw", "x", "y", "z">>
Rank(n) == CHOOSE i \in DOMAIN NameOrder : NameOrder[i] = n

RECURSIVE InsertSorted(_, _)
InsertSorted(s, n) ==
    IF s = <<>> THEN <<n>>
    ELSE IF Rank(n) < Rank(Head(s)) THEN <<n>> \o s
    ELSE <<Head(s)>> \o InsertSorted(Tail(s), n)

RECURSIVE Sorted(_)
Sorted(s) == IF s = <<>> THEN <<>> ELSE InsertSorted(Sorted(Tail(s)), Head(s))

\* ---- instructions ----
Inst(op, argval, arg) ==
    [opname |-> op, argval |-> argval, arg |-> arg, offset |-> NoOff,
     starts_line |-> NoLine, positions |-> FALSE, target |-> NoId,
     exn_target |-> NoId, exn_depth |-> 0, id |-> NoId]

create_instruction(op) == Inst(op, "", -1)
create_instruction_argval(op, argval) == Inst(op, argval, -1)
create_instruction_arg(op, arg) == Inst(op, "", arg)
create_load_const(val) == Inst("LOAD_CONST", val, -1)
create_jump_absolute(targetId) == [Inst("JUMP_ABSOLUTE", "", -1) EXCEPT !.target = targetId]

create_call_function(e, nargs) ==
    IF e >= 312 THEN <<create_instruction_arg("CALL", nargs)>>
    ELSE IF e >= 311 THEN <<create_instruction_arg("PRECALL", nargs), create_instruction_arg("CALL", nargs)>>
    ELSE <<create_instruction_arg("CALL_FUNCTION", nargs)>>

_initial_push_null(e) ==
    IF e >= 311
    THEN <<create_instruction("PUSH_NULL")>> \o (IF e < 313 THEN <<create_instruction_arg("SWAP", 2)>> ELSE <<>>)
    ELSE <<>>

_load_tuple_and_call(e, tup) ==
    _initial_push_null(e) \o [i \in 1..Len(tup) |-> create_load_const(tup[i])] \o create_call_function(e, Len(tup))

\* ---- template expansion (bytecode_from_template is the compiler primitive) ----
\* Instruction k of the template expanded for stack index s has id TemplateId(s, k).
TemplateId(s, k) == 0 - (IdStride * (s + 1) + k)

WithId(insts, s) == [k \in 1..Len(insts) |-> [insts[k] EXCEPT !.id = TemplateId(s, k)]]

\* "with ctx: dummy" compiled by the host compiler, returns stripped.
\* 3.11+: the body is covered by an exception region whose handler starts
\* with PUSH_EXC_INFO; 3.10: SETUP_WITH jumps to WITH_EXCEPT_START.
WithTemplate(e, s) ==
    IF e >= 311
    THEN WithId(<<create_instruction_argval("LOAD_FAST", "ctx"),
                  create_instruction("BEFORE_WITH"),
                  create_instruction("POP_TOP"),
                  [create_instruction_argval("LOAD_FAST", "dummy") EXCEPT !.exn_target = TemplateId(s, 9), !.exn_depth = 1],
                  [create_instruction("POP_TOP") EXCEPT !.exn_target = TemplateId(s, 9), !.exn_depth = 1],
                  create_load_const("None"),
                  create_instruction_arg("CALL", 2),
                  create_instruction("POP_TOP"),
                  create_instruction("PUSH_EXC_INFO"),
                  create_instruction("WITH_EXCEPT_START"),
                  create_instruction_arg("RERAISE", 2)>>, s)
    ELSE WithId(<<create_instruction_argval("LOAD_FAST", "ctx"),
                  [create_instruction("SETUP_WITH") EXCEPT !.target = TemplateId(s, 10)],
                  create_instruction("POP_TOP"),
                  create_instruction_argval("LOAD_FAST", "dummy"),
                  create_instruction("POP_TOP"),
                  create_instruction("POP_BLOCK"),
                  create_load_const("None"),
                  create_instruction_arg("CALL_FUNCTION", 3),
                  create_instruction("POP_TOP"),
                  create_instruction("WITH_EXCEPT_START"),
                  create_instruction("RERAISE")>>, s)

\* overwrite_instruction(old, [new]): the object keeps its identity and
\* takes the new instruction's operation
overwrite_instruction(old, new) ==
    [old EXCEPT !.opname = new.opname, !.argval = new.argval, !.arg = new.arg,
                !.target = new.target]

IsDummyLoad(i) == i.opname = "LOAD_FAST" /\ i.argval = "dummy"

\* as _bytecode_from_template_with_split, with the epilogue taken after the
\* second marker
_bytecode_from_template_with_split_after_marker(template, stack_index) ==
    LET code0 == Append(template, create_instruction("POP_TOP"))
        code1 == [k \in 1..Len(code0) |->
                    IF code0[k].exn_target # NoId
                    THEN [code0[k] EXCEPT !.exn_depth = @ + stack_index]
                    ELSE code0[k]]
        dummies == {k \in 1..Len(code1) : IsDummyLoad(code1[k])}
    IN  IF dummies = {} THEN [ok |-> FALSE, setup |-> <<>>, epilogue |-> <<>>]
        ELSE LET d == CHOOSE k \in dummies : \A j \in dummies : k <= j
             IN  IF d + 1 > Len(code1) \/ code1[d + 1].opname # "POP_TOP"
                 THEN [ok |-> FALSE, setup |-> <<>>, epilogue |-> <<>>]
                 ELSE LET code2 == [k \in 1..Len(code1) |->
                                      IF k = d \/ k = d + 1
                                      THEN overwrite_instruction(code1[k], create_instruction("NOP"))
                                      ELSE code1[k]]
                      IN  [ok |-> TRUE,
                           setup |-> SubSeq(code2, 1, d),
                           epilogue |-> SubSeq(code2, d + 2, Len(code2))]

\* Result: [ok, setup, epilogue]
_bytecode_from_template_with_split(template, stack_index) ==
    LET code0 == Append(template, create_instruction("POP_TOP"))
        code1 == [k \in 1..Len(code0) |->
                    IF code0[k].exn_target # NoId
                    THEN [code0[k] EXCEPT !.exn_depth = @ + stack_index]
                    ELSE code0[k]]
        dummies == {k \in 1..Len(code1) : IsDummyLoad(code1[k])}
    IN  IF dummies = {} THEN [ok |-> FALSE, setup |-> <<>>, epilogue |-> <<>>]
        ELSE LET d == CHOOSE k \in dummies : \A j \in dummies : k <= j
             IN  IF d + 1 > Len(code1) \/ code1[d + 1].opname # "POP_TOP"
                 THEN [ok |-> FALSE, setup |-> <<>>, epilogue |-> <<>>]
                 ELSE LET code2 == [k \in 1..Len(code1) |->
                                      IF k = d \/ k = d + 1
                                      THEN overwrite_instruction(code1[k], create_instruction("NOP"))
                                      ELSE code1[k]]
                      IN  [ok |-> TRUE,
                           setup |-> SubSeq(code2, 1, d),
                           epilogue |-> SubSeq(code2, d + 1, Len(code2))]

\* the tail of ReenterWith.__call__, from the split template on
ReenterWith_call_split(e, fn, split) ==
    LET load_args == [i \in 1..Len(fn.target_values) |-> create_load_const(fn.target_values[i])]
        create_ctx == _initial_push_null(e) \o load_args \o create_call_function(e, Len(load_args))
        setup_with == [k \in 1..Len(split.setup) |->
                         IF split.setup[k].opname = "LOAD_FAST" /\ split.setup[k].argval = "ctx"
                         THEN overwrite_instruction(split.setup[k], create_instruction("NOP"))
                         ELSE split.setup[k]]
        pei == {k \in 1..Len(split.epilogue) : split.epilogue[k].opname = "PUSH_EXC_INFO"}
    IN  [ok |-> split.ok /\ Cardinality(pei) <= 1
                /\ \E k \in 1..Len(split.setup) : split.setup[k].opname = "LOAD_FAST" /\ split.setup[k].argval = "ctx",
         setup |-> create_ctx \o setup_with,
         epilogue |-> split.epilogue,
         exn_target |-> IF pei = {} THEN NoId ELSE split.epilogue[CHOOSE k \in pei : TRUE].id]

\* ReenterWith.__call__: [setup, epilogue, exn_target]; the caller's cleanup
\* becomes epilogue + cleanup.
ReenterWith_call(e, fn) ==
    ReenterWith_call_split(e, fn,
        _bytecode_from_template_with_split(WithTemplate(e, fn.stack_index), fn.stack_index))

\* "ctx.__enter__(); try: dummy; finally: ctx.__exit__(None, None, None)"
\* compiled by the host compiler with ctx renamed to ctx_name, returns
\* stripped.  3.11+: the body is covered by an exception region whose handler
\* starts with PUSH_EXC_INFO; 3.10: SETUP_FINALLY jumps to the handler.
TryFinallyTemplate(e, s, ctx_name) ==
    IF e >= 311
    THEN WithId(<<create_instruction_argval("LOAD_FAST", ctx_name),
                  create_instruction_argval("LOAD_METHOD", "__enter__"),
                  create_instruction_arg("CALL", 0),
                  create_instruction("POP_TOP"),
                  [create_instruction_argval("LOAD_FAST", "dummy") EXCEPT !.exn_target = TemplateId(s, 11), !.exn_depth = 0],
                  [create_instruction("POP_TOP") EXCEPT !.exn_target = TemplateId(s, 11), !.exn_depth = 0],
                  create_instruction_argval("LOAD_FAST", ctx_name),
                  create_instruction_argval("LOAD_METHOD", "__exit__"),
                  create_instruction_arg("CALL", 3),
                  create_instruction("POP_TOP"),
                  create_instruction("PUSH_EXC_INFO"),
                  create_instruction_argval("LOAD_FAST", ctx_name),
                  create_instruction_argval("LOAD_METHOD", "__exit__"),
                  create_instruction_arg("CALL", 3),
                  create_instruction("POP_TOP"),
                  create_instruction_arg("RERAISE", 0)>>, s)
    ELSE WithId(<<create_instruction_argval("LOAD_FAST", ctx_name),
                  create_instruction_argval("LOAD_METHOD", "__enter__"),
                  create_instruction_arg("CALL_METHOD", 0),
                  create_instruction("POP_TOP"),
                  [create_instruction("SETUP_FINALLY") EXCEPT !.target = TemplateId(s, 13)],
                  create_instruction_argval("LOAD_FAST", "dummy"),
                  create_instruction("POP_TOP"),
                  create_instruction("POP_BLOCK"),
                  create_instruction_argval("LOAD_FAST", ctx_name),
                  create_instruction_argval("LOAD_METHOD", "__exit__"),
                  create_instruction_arg("CALL_METHOD", 3),
                  create_instruction("POP_TOP"),
                  create_instruction_argval("LOAD_FAST", ctx_name),
                  create_instruction_argval("LOAD_METHOD", "__exit__"),
                  create_instruction_arg("CALL_METHOD", 3),
                  create_instruction("POP_TOP"),
                  create_instruction("RERAISE")>>, s)

\* _try_except_tf_mode_template compiled by the host compiler with
\* stack_var_name renamed, returns stripped
TryExceptTemplate(e, s, stack_var_name) ==
    IF e >= 311
    THEN WithId(<<[create_instruction_argval("LOAD_FAST", "dummy") EXCEPT !.exn_target = TemplateId(s, 3), !.exn_depth = 0],
                  [create_instruction("POP_TOP") EXCEPT !.exn_target = TemplateId(s, 3), !.exn_depth = 0],
                  create_instruction("PUSH_EXC_INFO"),
                  create_instruction("POP_TOP"),
                  create_instruction_argval("LOAD_GLOBAL", "__import_torch_dot__dynamo_dot_utils"),
                  create_instruction_argval("LOAD_ATTR", "set_torch_function_mode_stack"),
                  create_instruction_argval("LOAD_FAST", stack_var_name),
                  create_instruction_arg("CALL", 1),
                  create_instruction("POP_TOP"),
                  create_instruction_arg("RAISE_VARARGS", 0)>>, s)
    ELSE WithId(<<[create_instruction("SETUP_FINALLY") EXCEPT !.target = TemplateId(s, 5)],
                  create_instruction_argval("LOAD_FAST", "dummy"),
                  create_instruction("POP_TOP"),
                  create_instruction("POP_BLOCK"),
                  create_instruction("POP_TOP"),
                  create_instruction_argval("LOAD_GLOBAL", "__import_torch_dot__dynamo_dot_utils"),
                  create_instruction_argval("LOAD_ATTR", "set_torch_function_mode_stack"),
                  create_instruction_argval("LOAD_FAST", stack_var_name),
                  create_instruction_arg("CALL_FUNCTION", 1),
                  create_instruction("POP_TOP"),
                  create_instruction_arg("RAISE_VARARGS", 0)>>, s)

\* cleanup[:] = cleanup + epilogue
prepend_epilogue_appended(epilogue, cleanup) == cleanup \o epilogue

\* cleanup[:] = epilogue + cleanup
prepend_epilogue(epilogue, cleanup) == epilogue \o cleanup

\* unique_id(f"___context_manager_{stack_index}")
CtxNames == <<"___context_manager_0", "___context_manager_1", "___context_manager_2",
              "___context_manager_3", "___context_manager_4">>

\* names + (name,) unless name is among names
AddName(names, name) == IF name \in Range(names) THEN names ELSE Append(names, name)

\* ReenterWith.try_except_torch_function_mode, from the split template on:
\* [ok, setup, cleanup, code_options, split]
try_except_torch_function_mode_split(code_options, cleanup, split) ==
    [ok |-> split.ok,
     setup |-> split.setup,
     cleanup |-> prepend_epilogue(split.epilogue, cleanup),
     code_options |-> code_options,
     split |-> split]

\* get_prev_stack_var_name() is the name given to stack_var_name
try_except_torch_function_mode(e, fn, code_options, cleanup) ==
    try_except_torch_function_mode_split(code_options, cleanup,
        _bytecode_from_template_with_split(
            TryExceptTemplate(e, fn.stack_index, "___prev_torch_function_mode_stack"), fn.stack_index))

\* ReenterWith.try_finally, from the split template on
try_finally_split(e, fn, code_options, cleanup, split) ==
    [ok |-> split.ok,
     setup |-> _initial_push_null(e)
                 \o [i \in 1..Len(fn.target_values) |-> create_load_const(fn.target_values[i])]
                 \o create_call_function(e, Len(fn.target_values))
                 \o <<create_instruction_argval("STORE_FAST", CtxNames[fn.stack_index + 1])>>
                 \o split.setup,
     cleanup |-> prepend_epilogue(split.epilogue, cleanup),
     code_options |->
         [code_options EXCEPT !.co_varnames = AddName(@, CtxNames[fn.stack_index + 1]),
                              !.co_names = AddName(AddName(@, "__enter__"), "__exit__")],
     split |-> split]

\* ReenterWith.try_finally
try_finally(e, fn, code_options, cleanup) ==
    try_finally_split(e, fn, code_options, cleanup,
        _bytecode_from_template_with_split(
            TryFinallyTemplate(e, fn.stack_index, CtxNames[fn.stack_index + 1]), fn.stack_index))

\* ReenterWith.__call__ with the accumulator: [ok, setup, cleanup, code_options, split]
ReenterWith_call_cleanup(code_options, cleanup, h, split) ==
    [ok |-> h.ok,
     setup |-> h.setup,
     cleanup |-> prepend_epilogue(h.epilogue, cleanup),
     code_options |-> code_options,
     split |-> split]

\* ---- code objects ----
\* The instruction stream of the original functions, as the host compiler
\* emits it (exception regions exist from 3.11 on).
RootInst(e, op, argval, off, line, tgt, exn) ==
    [Inst(op, argval, -1) EXCEPT !.offset = off, !.starts_line = line, !.positions = (e >= 311),
                                 !.target = tgt, !.exn_target = IF e >= 311 THEN exn ELSE NoOff]

RootInsts(e) ==
    << RootInst(e, "LOAD_FAST", "x", 0, 10, NoOff, 10),
       RootInst(e, "POP_JUMP_IF_FALSE", "", 2, NoLine, 6, NoOff),
       RootInst(e, "LOAD_FAST", "y", 4, 11, NoOff, 8),
       RootInst(e, "RETURN_VALUE", "", 6, 12, NoOff, 8),
       RootInst(e, IF e >= 311 THEN "PUSH_EXC_INFO" ELSE "POP_TOP", "", 8, 13, NoOff, NoOff),
       RootInst(e, IF e >= 311 THEN "PUSH_EXC_INFO" ELSE "RERAISE", "", 10, NoLine, NoOff, NoOff) >>

\* def f(x, /, *args, k, **kw) with a local y, a cell c and a free variable b
RootCode(e, flags, cells, frees) ==
    [co_name |-> <<"f">>,
     co_flags |-> flags,
     co_argcount |-> 1,
     co_posonlyargcount |-> 1,
     co_kwonlyargcount |-> 1,
     co_varnames |-> <<"x", "k", "args", "kw", "y">>,
     co_cellvars |-> cells,
     co_freevars |-> frees,
     co_firstlineno |-> 10,
     insts |-> RootInsts(e)]

\* cleaned_instructions(code): fresh instruction objects, one per instruction
\* of the code object; jump and region targets become object references.
cleaned_instructions(code) ==
    [k \in 1..Len(code.insts) |-> [code.insts[k] EXCEPT !.id = code.insts[k].offset]]

OffsetOfId(stream, h) ==
    IF h = NoId \/ ~(\E k \in 1..Len(stream) : stream[k].id = h) THEN NoOff
    ELSE InstSize * ((CHOOSE k \in 1..Len(stream) : stream[k].id = h) - 1)

\* the assembly half of transform_code_object: offsets are recomputed from
\* the position in the stream, targets are written back as offsets
assemble(stream, code_options) ==
    [code_options EXCEPT !.insts =
        [k \in 1..Len(stream) |->
            [stream[k] EXCEPT !.offset = InstSize * (k - 1),
                              !.target = OffsetOfId(stream, stream[k].target),
                              !.exn_target = OffsetOfId(stream, stream[k].exn_target),
                              !.id = NoId]]]

\* ---- the resume key ----
\* (offset, setup_fn_target_offsets, nstack, argnames, argnames_null,
\*  setup_fns, stack_ctx_vars, argnames_ctx_vars, null_idxes)
Key(offset, targets, nstack, argnames, argnames_null, setup_fns, stack_ctx_vars, argnames_ctx_vars, null_idxes) ==
    [offset |-> offset, setup_fn_target_offsets |-> targets, nstack |-> nstack,
     argnames |-> argnames, argnames_null |-> argnames_null, setup_fns |-> setup_fns,
     stack_ctx_vars |-> stack_ctx_vars, argnames_ctx_vars |-> argnames_ctx_vars,
     null_idxes |-> null_idxes]

ReenterWith(stack_index, target_values) == [stack_index |-> stack_index, target_values |-> target_values]

\* ---- ContinueExecutionCache.generate: the update transformation ----
\* args.extend(v for v in argnames if v not in args): the membership test
\* sees the names appended so far
\* as ExtendArgs, with the membership test made against the list as it was
\* before the extension (a list built first, then appended)
ExtendArgs_static(args, names) == args \o SelectSeq(names, LAMBDA v : v \notin Range(args))

RECURSIVE ExtendArgs(_, _)
ExtendArgs(args, names) ==
    IF names = <<>> THEN args
    ELSE ExtendArgs(IF Head(names) \in Range(args) THEN args ELSE Append(args, Head(names)),
                    Tail(names))

Args(nstack, argnames) == ExtendArgs([i \in 1..nstack |-> StackName(i - 1)], argnames)

NotIn(names, args) == SelectSeq(names, LAMBDA v : v \notin Range(args))

LastIndex(seq, P(_)) == Max({i \in DOMAIN seq : P(seq[i])})

\* {fn.stack_index: fn for fn in setup_fns}
HooksDict(setup_fns) ==
    [s \in {setup_fns[i].stack_index : i \in DOMAIN setup_fns} |->
        setup_fns[LastIndex(setup_fns, LAMBDA fn : fn.stack_index = s)]]

\* {fn.stack_index: setup_fn_target_offsets[i] for i, fn in enumerate(setup_fns)}
HookTargetOffsets(setup_fns, targets) ==
    [s \in {setup_fns[i].stack_index : i \in DOMAIN setup_fns} |->
        targets[LastIndex(setup_fns, LAMBDA fn : fn.stack_index = s)]]

\* dict(pairs) for a tuple of (key, value) pairs
DictOfPairs(pairs) ==
    [k \in {pairs[i][1] : i \in DOMAIN pairs} |->
        pairs[LastIndex(pairs, LAMBDA p : p[1] = k)][2]]

\* as NullRun, with the recorded indexes read as indexes of stack slots
RECURSIVE NullRun_by_slot(_, _, _)
NullRun_by_slot(null_idxes, j, i) ==
    IF j < Len(null_idxes) /\ null_idxes[j + 1] = i
    THEN NullRun_by_slot(null_idxes, j + 1, i)
    ELSE j

\* the while loop over null_idxes: the value of null_idxes_i after it
RECURSIVE NullRun(_, _, _)
NullRun(null_idxes, j, i) ==
    IF j < Len(null_idxes) /\ null_idxes[j + 1] = i + j
    THEN NullRun(null_idxes, j + 1, i)
    ELSE j

RECURSIVE StackLoop(_, _, _, _, _)

\* one round of the loop, for stack slot i: nj is null_idxes_i after the
\* while loop, h the instructions of the hook of slot i (when there is one),
\* hto its target offset
StackStep(e, key, offsets, i, st, nj, h, hto) ==
    LET p1 == st.prefix \o [n \in 1..(nj - st.null_idxes_i) |-> create_instruction("PUSH_NULL")]
                          \o <<create_instruction_argval("LOAD_FAST", StackName(i))>>
        hooked == i \in st.hooks
        ctxd == DictOfPairs(key.stack_ctx_vars)
    IN  IF hooked /\ ~h.ok
        THEN [st EXCEPT !.err = "AssertionError"]
        ELSE IF hooked /\ e >= 311 /\ hto \notin offsets
        THEN [st EXCEPT !.err = "KeyError"]
        ELSE StackLoop(e, key, offsets, i + 1,
               [st EXCEPT !.prefix = p1 \o (IF hooked THEN h.setup ELSE <<>>)
                                        \o (IF (i + nj) \in DOMAIN ctxd
                                            THEN _load_tuple_and_call(e, ctxd[i + nj])
                                            ELSE <<>>),
                          !.null_idxes_i = nj,
                          !.cleanup = IF hooked THEN prepend_epilogue(h.epilogue, @) ELSE @,
                          !.hooks = @ \ {i},
                          !.prefix_block_target_offset_remap =
                              IF hooked /\ e >= 311 THEN Append(@, hto) ELSE @,
                          !.old_hook_target_remap =
                              IF hooked /\ e >= 311 THEN Put(@, hto, h.exn_target) ELSE @])

\* the loop "for i in range(nstack)" of update, from index i on
StackLoop(e, key, offsets, i, st) ==
    IF st.err # "" \/ i >= key.nstack THEN st
    ELSE StackStep(e, key, offsets, i, st,
                   NullRun(key.null_idxes, st.null_idxes_i, i),
                   ReenterWith_call(e, HooksDict(key.setup_fns)[i]),
                   HookTargetOffsets(key.setup_fns, key.setup_fn_target_offsets)[i])

unreachable_codes ==
    <<create_load_const("None"), create_instruction_arg("RAISE_VARARGS", 1)>>

Offsets(instructions) == {instructions[k].offset : k \in 1..Len(instructions)}

FirstAt(instructions, offset) ==
    CHOOSE k \in 1..Len(instructions) :
        /\ instructions[k].offset = offset
        /\ \A j \in 1..(k - 1) : instructions[j].offset # offset

\* the prologue part built after the stack loop: in-place rebuilds of local
\* context variables, then the explicit unbound stores
CtxVarsPrefix(e, argnames_ctx_vars) ==
    Concat([i \in 1..Len(argnames_ctx_vars) |->
              <<create_instruction_argval("LOAD_FAST", argnames_ctx_vars[i][1])>>
              \o _load_tuple_and_call(e, argnames_ctx_vars[i][2])
              \o <<create_instruction_argval("STORE_FAST", argnames_ctx_vars[i][1])>>])

\* as NullStores, with a store for the first name only
NullStores_first_only(argnames_null) ==
    IF argnames_null = <<>> THEN <<>>
    ELSE <<create_instruction("PUSH_NULL"),
           create_instruction_argval("STORE_FAST", argnames_null[1])>>

NullStores(argnames_null) ==
    Concat([i \in 1..Len(argnames_null) |->
              <<create_instruction("PUSH_NULL"),
                create_instruction_argval("STORE_FAST", argnames_null[i])>>])

\* as PrologueHead, without the RESUME marker
PrologueHead_no_resume(e, freevars) ==
    IF e >= 311 /\ freevars # <<>>
    THEN <<create_instruction_arg("COPY_FREE_VARS", Len(freevars))>>
    ELSE <<>>

\* the head of the prologue: on 3.11+ the frame set-up instructions
PrologueHead(e, freevars) ==
    IF e >= 311
    THEN (IF freevars # <<>>
          THEN <<create_instruction_arg("COPY_FREE_VARS", Len(freevars))>>
          ELSE <<>>) \o <<create_instruction_arg("RESUME", 0)>>
    ELSE <<>>

\* as update_failed, with the exception swallowed
update_failed_swallowed(err, instructions, code_options) ==
    [err |-> "", instructions |-> instructions, code_options |-> code_options,
     meta_instructions |-> instructions, prefix_block_target_offset_remap |-> <<>>]

\* update raising err: nothing of the transformation is kept
update_failed(err, instructions, code_options) ==
    [err |-> err, instructions |-> instructions, code_options |-> code_options,
     meta_instructions |-> instructions, prefix_block_target_offset_remap |-> <<>>]

\* the code options update writes
update_code_options(code_options, lineno, key, args) ==
    [code_options EXCEPT
        !.co_name = <<TORCH_DYNAMO_RESUME_IN_PREFIX>> \o @ \o <<"at", LineStr(lineno)>>,
        !.co_firstlineno = lineno,
        !.co_cellvars = <<>>,
        !.co_freevars = Sorted(code_options.co_cellvars \o code_options.co_freevars),
        !.co_argcount = Len(args),
        !.co_posonlyargcount = 0,
        !.co_kwonlyargcount = 0,
        !.co_varnames = args \o NotIn(key.argnames_null, args) \o NotIn(@, args),
        !.co_flags = @ \ {CO_VARARGS, CO_VARKEYWORDS}]

\* as strip_lines, with the marker of the target instruction removed too
strip_lines_through_target(e, instructions, tpos) ==
    [k \in 1..Len(instructions) |->
        IF k <= tpos
        THEN [instructions[k] EXCEPT !.starts_line = NoLine,
                                     !.positions = IF e >= 311 THEN FALSE ELSE @]
        ELSE instructions[k]]

\* the loop that removes starts_line (3.11+: and positions) from the
\* instructions before the target, which is at position tpos
strip_lines(e, instructions, tpos) ==
    [k \in 1..Len(instructions) |->
        IF k < tpos
        THEN [instructions[k] EXCEPT !.starts_line = NoLine,
                                     !.positions = IF e >= 311 THEN FALSE ELSE @]
        ELSE instructions[k]]

\* as remap_exn_entries, with every region given the first new target
remap_exn_entries_all(instructions, old_hook_target_remap) ==
    [k \in 1..Len(instructions) |->
        IF instructions[k].exn_target # NoId /\ old_hook_target_remap # <<>>
        THEN [instructions[k] EXCEPT !.exn_target =
                  old_hook_target_remap[CHOOSE t \in DOMAIN old_hook_target_remap : TRUE]]
        ELSE instructions[k]]

\* the remap of the exception table entries of the original instructions
remap_exn_entries(instructions, old_hook_target_remap) ==
    [k \in 1..Len(instructions) |->
        IF instructions[k].exn_target # NoId
           /\ instructions[k].exn_target \in DOMAIN old_hook_target_remap
        THEN [instructions[k] EXCEPT !.exn_target = old_hook_target_remap[@]]
        ELSE instructions[k]]

\* as update_instructions, with the raise sequence emitted after every prologue
update_instructions_always_raise(e, instructions, key, tpos, st) ==
    st.prefix \o CtxVarsPrefix(e, key.argnames_ctx_vars)
              \o NullStores(key.argnames_null)
              \o <<create_jump_absolute(instructions[tpos].id)>>
              \o st.cleanup \o unreachable_codes
              \o remap_exn_entries(strip_lines(e, instructions, tpos), st.old_hook_target_remap)

\* the instruction stream update leaves: prefix + instructions, after the
\* stack loop ended in st; tpos is the position of the target instruction
update_instructions(e, instructions, key, tpos, st) ==
    st.prefix \o CtxVarsPrefix(e, key.argnames_ctx_vars)
              \o NullStores(key.argnames_null)
              \o <<create_jump_absolute(instructions[tpos].id)>>
              \o (IF st.cleanup # <<>> THEN st.cleanup \o unreachable_codes ELSE <<>>)
              \o remap_exn_entries(strip_lines(e, instructions, tpos), st.old_hook_target_remap)

\* as update_after_loop, with the recorded targets left in the order of the loop
update_after_loop_unreversed(e, instructions, code_options, lineno, key, args, st) ==
    IF st.err # "" THEN update_failed(st.err, instructions, code_options)
    ELSE IF st.hooks # {} THEN update_failed("AssertionError", instructions, code_options)
    ELSE IF key.argnames_null # <<>> /\ (e < 312 \/ \E v \in Range(key.argnames_null) : v \in Range(args))
    THEN update_failed("AssertionError", instructions, code_options)
    ELSE [err |-> "",
          instructions |-> update_instructions(e, instructions, key, FirstAt(instructions, key.offset), st),
          code_options |-> update_code_options(code_options, lineno, key, args),
          meta_instructions |-> instructions,
          prefix_block_target_offset_remap |->
              IF e >= 311 THEN st.prefix_block_target_offset_remap ELSE <<>>]

\* update from the end of the stack loop (state st) on
update_after_loop(e, instructions, code_options, lineno, key, args, st) ==
    IF st.err # "" THEN update_failed(st.err, instructions, code_options)
    ELSE IF st.hooks # {} THEN update_failed("AssertionError", instructions, code_options)
    ELSE IF key.argnames_null # <<>> /\ (e < 312 \/ \E v \in Range(key.argnames_null) : v \in Range(args))
    THEN update_failed("AssertionError", instructions, code_options)
    ELSE [err |-> "",
          instructions |-> update_instructions(e, instructions, key, FirstAt(instructions, key.offset), st),
          code_options |-> update_code_options(code_options, lineno, key, args),
          meta_instructions |-> instructions,
          prefix_block_target_offset_remap |->
              IF e >= 311 THEN Reverse(st.prefix_block_target_offset_remap) ELSE <<>>]

\* update(instructions, code_options) of generate, for the request (lineno, key).
\* Result: [err, instructions, code_options, meta_instructions,
\*          prefix_block_target_offset_remap]; err = "" when it returns.
update(e, instructions, code_options, lineno, key) ==
    IF key.offset \notin Offsets(instructions)
    THEN update_failed("StopIteration", instructions, code_options)
    ELSE IF Len(key.setup_fn_target_offsets) < Len(key.setup_fns)
    THEN update_failed("IndexError", instructions, code_options)
    ELSE update_after_loop(e, instructions, code_options, lineno, key,
             Args(key.nstack, key.argnames),
             StackLoop(e, key, Offsets(instructions), 0,
                       [prefix |-> PrologueHead(e, Sorted(code_options.co_cellvars \o code_options.co_freevars)),
                        cleanup |-> <<>>,
                        hooks |-> DOMAIN HooksDict(key.setup_fns),
                        prefix_block_target_offset_remap |-> <<>>,
                        old_hook_target_remap |-> <<>>,
                        null_idxes_i |-> 0, err |-> ""]))

\* as ResumeFunctionMetadata, with the instruction list left as the
\* constructor makes it (empty)
ResumeFunctionMetadata_no_snapshot(code, instructions, prefix_remap) ==
    [code |-> code, instructions |-> <<>>,
     prefix_block_target_offset_remap |-> prefix_remap,
     block_target_offset_remap |-> [none |-> TRUE, map |-> <<>>]]

\* ResumeFunctionMetadata
ResumeFunctionMetadata(code, instructions, prefix_remap) ==
    [code |-> code, instructions |-> instructions,
     prefix_block_target_offset_remap |-> prefix_remap,
     block_target_offset_remap |-> [none |-> TRUE, map |-> <<>>]]

GeneratorLike == {CO_GENERATOR, CO_COROUTINE, CO_ITERABLE_COROUTINE, CO_ASYNC_GENERATOR}

\* as Rejected, with the iterable-coroutine bit left out of the mask
Rejected_no_iterable_coroutine(code) ==
    \/ code.co_flags \cap (GeneratorLike \ {CO_ITERABLE_COROUTINE}) # {}
    \/ CO_OPTIMIZED \notin code.co_flags

\* the assertions at the head of generate
Rejected(code) ==
    \/ code.co_flags \cap GeneratorLike # {}
    \/ CO_OPTIMIZED \notin code.co_flags

\* ---- generate_based_on_original_code_object ----
Min(a, b) == IF a < b THEN a ELSE b

\* zip(reversed(instructions), reversed(meta_instructions)): the j-th pair
\* holds the position of an instruction of the resumed code (its identity)
\* and the instruction of the snapshot paired with it
ZipReversed(instructions, meta_instructions) ==
    [j \in 1..Min(Len(instructions), Len(meta_instructions)) |->
        [pos |-> Len(instructions) + 1 - j,
         old |-> meta_instructions[Len(meta_instructions) + 1 - j]]]

\* as find_new_offset, with the two streams paired from their first
\* instructions
find_new_offset_from_start(instructions, meta_instructions, offset) ==
    LET targets == {k \in 1..Len(instructions) : instructions[k].offset = offset}
    IN  IF Cardinality(targets) # 1 THEN [err |-> "ValueError", new_offset |-> NoOff]
        ELSE LET target == CHOOSE k \in targets : TRUE
             IN  IF target > Len(meta_instructions)
                 THEN [err |-> "ValueError", new_offset |-> NoOff]
                 ELSE IF instructions[target].opname # meta_instructions[target].opname
                 THEN [err |-> "AssertionError", new_offset |-> NoOff]
                 ELSE [err |-> "", new_offset |-> meta_instructions[target].offset]

\* find_new_offset: [err, new_offset]
find_new_offset(instructions, meta_instructions, offset) ==
    LET targets == {k \in 1..Len(instructions) : instructions[k].offset = offset}
        zipped == ZipReversed(instructions, meta_instructions)
    IN  IF Cardinality(targets) # 1 THEN [err |-> "ValueError", new_offset |-> NoOff]
        ELSE LET target == CHOOSE k \in targets : TRUE
                 news == {j \in DOMAIN zipped : zipped[j].pos = target}
             IN  IF Cardinality(news) # 1 THEN [err |-> "ValueError", new_offset |-> NoOff]
                 ELSE LET new_target == zipped[CHOOSE j \in news : TRUE].old
                      IN  IF instructions[target].opname # new_target.opname
                          THEN [err |-> "AssertionError", new_offset |-> NoOff]
                          ELSE [err |-> "", new_offset |-> new_target.offset]

RECURSIVE InsertInt(_, _)
InsertInt(s, n) ==
    IF s = <<>> THEN <<n>>
    ELSE IF n < Head(s) THEN <<n>> \o s
    ELSE <<Head(s)>> \o InsertInt(Tail(s), n)

RECURSIVE SortedInts(_)
SortedInts(s) == IF s = <<>> THEN <<>> ELSE InsertInt(SortedInts(Tail(s)), Head(s))

\* _filter_iter(instructions, sorted_offsets, lambda inst, o: inst.offset == o),
\* from position i of l1 and j of l2; the result lists positions of l1
RECURSIVE FilterByOffset(_, _, _, _)
FilterByOffset(l1, l2, i, j) ==
    IF j > Len(l2) \/ i > Len(l1) THEN <<>>
    ELSE IF l1[i].offset = l2[j]
         THEN <<i>> \o FilterByOffset(l1, l2, i + 1, j + 1)
         ELSE FilterByOffset(l1, l2, i + 1, j)

\* _filter_iter(zipped, targets, lambda v1, v2: v1[0] is v2)
RECURSIVE FilterByIdentity(_, _, _, _)
FilterByIdentity(l1, l2, i, j) ==
    IF j > Len(l2) \/ i > Len(l1) THEN <<>>
    ELSE IF l1[i].pos = l2[j]
         THEN <<l1[i]>> \o FilterByIdentity(l1, l2, i + 1, j + 1)
         ELSE FilterByIdentity(l1, l2, i + 1, j)

RECURSIVE PutAll(_, _, _)
PutAll(f, ks, vs) ==
    IF ks = <<>> \/ vs = <<>> THEN f
    ELSE PutAll(Put(f, Head(ks), Head(vs)), Tail(ks), Tail(vs))

\* remap_block_offsets: the table built on the first redirect through a unit
remap_block_offsets(instructions, meta, setup_fn_target_offsets) ==
    LET pei == SelectSeq([k \in 1..Len(instructions) |-> k],
                         LAMBDA k : instructions[k].opname = "PUSH_EXC_INFO")
        prefix_blocks == SubSeq(pei, 1, Min(Len(pei), Len(meta.prefix_block_target_offset_remap)))
        m1 == PutAll(<<>>, [i \in 1..Len(prefix_blocks) |-> instructions[prefix_blocks[i]].offset],
                     meta.prefix_block_target_offset_remap)
        old_start_offset == IF prefix_blocks # <<>>
                            THEN instructions[prefix_blocks[Len(prefix_blocks)]].offset
                            ELSE -1
        old_inst_offsets == SortedInts(SelectSeq(setup_fn_target_offsets,
                                                 LAMBDA n : n > old_start_offset))
        targets == FilterByOffset(instructions, old_inst_offsets, 1, 1)
        new_targets == FilterByIdentity(ZipReversed(instructions, meta.instructions), targets, 1, 1)
    IN  PutAll(m1, [i \in 1..Len(targets) |-> instructions[targets[i]].offset],
               [i \in 1..Len(new_targets) |-> new_targets[i].old.offset])

\* ---- ContinueExecutionCache ----
\* The tables are threaded through the calls as a record
\*   S = [units, cache, meta, nextId]
\* units: the code objects of the heap by identity; cache and meta: the two
\* ExactWeakKeyDictionary tables (keyed by identity).
\* A call returns [S, err, res, hops, created]: the tables after the call,
\* the exception ("" when it returns), the returned code object, the number
\* of redirects taken, and the requests that ran the root-case synthesis.
Failure(S, err) == [S |-> S, err |-> err, res |-> 0, hops |-> 0, created |-> {}]

RECURSIVE lookup(_, _, _, _, _)

\* generate, root case, after update returned u: the new code object and
\* the registration of its metadata
register(S, code, lineno, key, u) ==
    IF u.err # "" THEN Failure(S, u.err)
    ELSE [S |-> [S EXCEPT !.units = Put(@, S.nextId, assemble(u.instructions, u.code_options)),
                          !.meta = Put(@, S.nextId,
                                       ResumeFunctionMetadata(code, u.meta_instructions,
                                                              u.prefix_block_target_offset_remap)),
                          !.nextId = @ + 1],
          err |-> "", res |-> S.nextId, hops |-> 0,
          created |-> {[id |-> S.nextId, code |-> code, lineno |-> lineno, key |-> key]}]

\* generate, root case: transform_code_object(code, update) and registration
generate_root(e, S, code, lineno, key) ==
    register(S, code, lineno, key,
             update(e, cleaned_instructions(S.units[code]), S.units[code], lineno, key))

\* one more redirect on the way to the outcome r
Hop(r) == [r EXCEPT !.hops = @ + 1]

\* as nested_lookup, but the root unit is handed to generate (the memo table
\* of the root is not consulted)
nested_lookup_no_memo(e, S, code, lineno, key) == generate_root(e, S, code, lineno, key)

\* the call that ends generate_based_on_original_code_object
nested_lookup(e, S, code, lineno, key) == lookup(e, S, code, lineno, key)

\* as RedirectTarget, with the unit the request was made on handed on
RedirectTarget_same_unit(code, meta) == code

\* the unit the redirect hands to lookup: the original recorded in the
\* metadata of the generated unit code
RedirectTarget(code, meta) == meta.code

\* generate_based_on_original_code_object from the translation of the
\* resource-target offsets on: f is the outcome of find_new_offset, table
\* the remap table (just computed when recompute holds)
redirect(e, S, code, lineno, key, f, recompute, table) ==
    IF f.err # "" THEN Failure(S, f.err)
    ELSE IF e >= 311 /\ \E i \in DOMAIN key.setup_fn_target_offsets :
                            key.setup_fn_target_offsets[i] \notin DOMAIN table
    THEN Failure(IF recompute
                 THEN [S EXCEPT !.meta[code].block_target_offset_remap = [none |-> FALSE, map |-> table]]
                 ELSE S, "KeyError")
    ELSE Hop(nested_lookup(e,
                 IF recompute
                 THEN [S EXCEPT !.meta[code].block_target_offset_remap = [none |-> FALSE, map |-> table]]
                 ELSE S,
                 RedirectTarget(code, S.meta[code]), lineno,
                 [key EXCEPT !.offset = f.new_offset,
                             !.setup_fn_target_offsets =
                                 IF e >= 311 THEN [i \in DOMAIN @ |-> table[@[i]]] ELSE @]))

\* the remap table is computed when the metadata holds none, or an empty one
Recompute(e, meta) ==
    e >= 311 /\ (meta.block_target_offset_remap.none \/ meta.block_target_offset_remap.map = <<>>)

generate_based_on_original_code_object(e, S, code, lineno, key) ==
    redirect(e, S, code, lineno, key,
             find_new_offset(cleaned_instructions(S.units[code]), S.meta[code].instructions, key.offset),
             Recompute(e, S.meta[code]),
             IF Recompute(e, S.meta[code])
             THEN remap_block_offsets(cleaned_instructions(S.units[code]), S.meta[code],
                                      key.setup_fn_target_offsets)
             ELSE S.meta[code].block_target_offset_remap.map)

\* as generate, without the redirect of a generated unit to its original
generate_no_redirect(e, S, code, lineno, key) ==
    IF Rejected(S.units[code]) THEN Failure(S, "AssertionError")
    ELSE generate_root(e, S, code, lineno, key)

generate(e, S, code, lineno, key) ==
    IF Rejected(S.units[code]) THEN Failure(S, "AssertionError")
    ELSE IF code \in DOMAIN S.meta
    THEN generate_based_on_original_code_object(e, S, code, lineno, key)
    ELSE generate_root(e, S, code, lineno, key)

\* as store, but the unit is not put in the memo table
store_nothing(g, code, lineno, key) == g

\* as store, with an entry left behind when generate raised
store_failure(g, code, lineno, key) == [g EXCEPT !.S.cache[code] = Put(@, key, g.res)]

\* cls.cache[code][key] = cls.generate(code, lineno, *key), g the outcome of generate
store(g, code, lineno, key) ==
    IF g.err # "" THEN g ELSE [g EXCEPT !.S.cache[code] = Put(@, key, g.res)]

\* as lookup_entry, with the line of the request made part of the memo key
lookup_entry_keyed_on_line(e, S, code, lineno, key) ==
    IF <<lineno, key>> \in DOMAIN S.cache[code]
    THEN [S |-> S, err |-> "", res |-> S.cache[code][<<lineno, key>>], hops |-> 0, created |-> {}]
    ELSE LET g == generate(e, S, code, lineno, key)
         IN  IF g.err # "" THEN g ELSE [g EXCEPT !.S.cache[code] = Put(@, <<lineno, key>>, g.res)]

\* lookup, once the memo entry of code exists (tables S)
lookup_entry(e, S, code, lineno, key) ==
    IF key \in DOMAIN S.cache[code]
    THEN [S |-> S, err |-> "", res |-> S.cache[code][key], hops |-> 0, created |-> {}]
    ELSE store(generate(e, S, code, lineno, key), code, lineno, key)

lookup(e, S, code, lineno, key) ==
    lookup_entry(e, IF code \notin DOMAIN S.cache THEN [S EXCEPT !.cache = Put(@, code, <<>>)] ELSE S,
                 code, lineno, key)

\* ======================= torch/nested/_internal/union_find.py =======================
\* ---- bounds of the union-find model ----
\* how often a tensor is mutated
MaxVersion == 1

\* the tensors of the program: three plain tensors and a FakeTensor
Tensors == {"a", "b", "c", "f"}
None == "None"

\* the TensorUnionFind objects: the one get_union_find() makes and the
\* fake_union_find of the fake mode
GlobalUf == 1
FakeUf == 2
Ufs == {GlobalUf, FakeUf}

\* _get_union_find(x)
_get_union_find(x) == IF x = "f" THEN FakeUf ELSE GlobalUf

\* ---- UnionFind ----
\* UnionFind.__init__
UnionFind == [parent |-> <<>>, size |-> <<>>]

RECURSIVE UnionFind_find(_, _)

\* self.parent[v] = self.find(par); return self.parent[v]
UnionFind_find_compress(v, r) ==
    [uf |-> [r.uf EXCEPT !.parent[v] = r.val], val |-> r.val]

\* UnionFind.find from "par = self.parent[v]" on
UnionFind_find_known(uf, v) ==
    IF uf.parent[v] = v THEN [uf |-> uf, val |-> v]
    ELSE UnionFind_find_compress(v, UnionFind_find(uf, uf.parent[v]))

\* UnionFind.find: [uf, val]
UnionFind_find(uf, v) ==
    UnionFind_find_known(IF v \notin DOMAIN uf.parent
                         THEN [parent |-> Put(uf.parent, v, v), size |-> Put(uf.size, v, 1)]
                         ELSE uf, v)

\* UnionFind.merge for the roots a, b, from "if a == b" on
UnionFind_merge_roots(uf, a, b) ==
    IF a = b THEN uf
    ELSE IF uf.size[a] < uf.size[b]
    THEN [uf EXCEPT !.parent[a] = b, !.size[b] = @ + uf.size[a]]
    ELSE [uf EXCEPT !.parent[b] = a, !.size[a] = @ + uf.size[b]]

UnionFind_merge_second(ra, b) == UnionFind_merge_roots(UnionFind_find(ra.uf, b).uf, ra.val, UnionFind_find(ra.uf, b).val)

\* UnionFind.merge: the structure after the call
UnionFind_merge(uf, a, b) == UnionFind_merge_second(UnionFind_find(uf, a), b)

\* ---- the heap of the union-find objects ----
\* The objects are threaded through the calls as a record
\*   U = [_version, intmaps, tufs, mdicts, esets, assigned]
\* _version: t._version of each tensor; intmaps: the dictionaries of the
\* TensorIntMap objects by identity (ClassLevel: the two dictionaries that
\* are attributes of the class); tufs: the TensorUnionFind objects; mdicts,
\* esets: the metadata dicts and the equivalence sets by identity; assigned:
\* history of the ints get_int handed out.
\* A call returns [U, err, val]: the heap after the call, the exception (""
\* when it returns) and the returned value.
ClassLevel == 0

UOk(U, val) == [U |-> U, err |-> "", val |-> val]
URaise(U, err) == [U |-> U, err |-> err, val |-> None]

\* an exception of a callee leaves the caller
Propagates(r) == [r EXCEPT !.val = None]

\* TensorIntMap(): the instance has no attribute of its own; the counter is
\* read from the class until the first "+=" makes it an instance attribute
TensorIntMap == [_incrementing_id |-> 0, dicts |-> ClassLevel]

\* TensorIntMap.get_int
TensorIntMap_get_int(U, u, t) ==
    LET m == U.tufs[u]._tensor_int_map
        d == U.intmaps[m.dicts]
    IN  IF t \notin DOMAIN d._tensor_to_int_and_version
           \/ d._tensor_to_int_and_version[t][2] # U._version[t]
        THEN UOk([U EXCEPT
                    !.intmaps[m.dicts]._tensor_to_int_and_version =
                        Put(@, t, <<m._incrementing_id, U._version[t]>>),
                    !.intmaps[m.dicts]._int_to_tensor = Put(@, m._incrementing_id, t),
                    !.tufs[u]._tensor_int_map._incrementing_id = @ + 1,
                    !.assigned = @ \cup {[map |-> u, tensor |-> t, version |-> U._version[t],
                                          int |-> m._incrementing_id]}],
                 m._incrementing_id)
        ELSE UOk(U, d._tensor_to_int_and_version[t][1])

Without(f, k) == [x \in (DOMAIN f) \ {k} |-> f[x]]

\* TensorIntMap.get_opt_tensor (every tensor of the model is alive)
TensorIntMap_get_opt_tensor(U, u, i) ==
    LET m == U.tufs[u]._tensor_int_map
        d == U.intmaps[m.dicts]
    IN  IF i \notin DOMAIN d._int_to_tensor THEN UOk(U, None)
        ELSE IF d._tensor_to_int_and_version[d._int_to_tensor[i]][2] # U._version[d._int_to_tensor[i]]
                \/ d._tensor_to_int_and_version[d._int_to_tensor[i]][1] # i
        THEN UOk([U EXCEPT !.intmaps[m.dicts]._int_to_tensor = Without(@, i)], None)
        ELSE UOk(U, d._int_to_tensor[i])

\* ---- TensorUnionFind ----
\* an entry of _metadata or _equiv_sets: the dict or set it holds (by
\* identity), or self._INVALID_ENTRY
NoRef == <<0, -1>>
_INVALID_ENTRY == [valid |-> FALSE, ref |-> NoRef]
Entry(ref) == [valid |-> TRUE, ref |-> ref]

\* TensorUnionFind.__init__
TensorUnionFind ==
    [_union_find_int |-> UnionFind,
     _tensor_int_map |-> TensorIntMap,
     _metadata |-> <<>>,
     _equiv_sets |-> <<>>]

\* self._metadata[i] of the DefaultDict(dict): a missing entry is made, with
\* a new empty dict (the dict made for entry i of object u is <<u, i>>)
MetadataEntry(U, u, i) ==
    IF i \in DOMAIN U.tufs[u]._metadata THEN U
    ELSE [U EXCEPT !.tufs[u]._metadata = Put(@, i, Entry(<<u, i>>)),
                   !.mdicts = Put(@, <<u, i>>, <<>>)]

\* self._equiv_sets[i] of the DefaultDict(set)
EquivSetsEntry(U, u, i) ==
    IF i \in DOMAIN U.tufs[u]._equiv_sets THEN U
    ELSE [U EXCEPT !.tufs[u]._equiv_sets = Put(@, i, Entry(<<u, i>>)),
                   !.esets = Put(@, <<u, i>>, {})]

\* the end of TensorUnionFind.find: r is the outcome of get_opt_tensor
TensorUnionFind_find_tensor(r) ==
    IF r.val = None THEN URaise(r.U, "RuntimeError") ELSE r

\* self._union_find_int.find(self._tensor_int_map.get_int(tensor)), g the
\* outcome of get_int: [U, err, val], val the canonical id
CanonicalIdOf(u, g, f) == UOk([g.U EXCEPT !.tufs[u]._union_find_int = f.uf], f.val)

CanonicalId(U, u, t) ==
    CanonicalIdOf(u, TensorIntMap_get_int(U, u, t),
                  UnionFind_find(TensorIntMap_get_int(U, u, t).U.tufs[u]._union_find_int,
                                 TensorIntMap_get_int(U, u, t).val))

\* TensorUnionFind.find
TensorUnionFind_find_from(u, c) ==
    TensorUnionFind_find_tensor(TensorIntMap_get_opt_tensor(c.U, u, c.val))

TensorUnionFind_find(U, u, t) == TensorUnionFind_find_from(u, CanonicalId(U, u, t))

\* TensorUnionFind._get_equiv_set, g the outcome of get_opt_tensor and E the
\* heap once self._equiv_sets[canonical_int] has been evaluated
_get_equiv_set_add(E, u, i, canonical_tensor) ==
    IF ~E.tufs[u]._equiv_sets[i].valid THEN URaise(E, "AttributeError")
    ELSE IF canonical_tensor = None THEN URaise(E, "TypeError")
    ELSE [U |-> [E EXCEPT !.esets[E.tufs[u]._equiv_sets[i].ref] = @ \cup {canonical_tensor}],
          err |-> "", val |-> E.tufs[u]._equiv_sets[i].ref]

_get_equiv_set_entry(u, i, g) ==
    _get_equiv_set_add(EquivSetsEntry(g.U, u, i), u, i, g.val)

_get_equiv_set(U, u, i) == _get_equiv_set_entry(u, i, TensorIntMap_get_opt_tensor(U, u, i))

\* TensorUnionFind.get_metadata, c the canonical id
get_metadata_assert(E, u, i) ==
    IF ~E.tufs[u]._metadata[i].valid THEN URaise(E, "AssertionError")
    ELSE [U |-> E, err |-> "", val |-> E.tufs[u]._metadata[i].ref]

get_metadata_entry(u, c) == get_metadata_assert(MetadataEntry(c.U, u, c.val), u, c.val)

get_metadata(U, u, t) == get_metadata_entry(u, CanonicalId(U, u, t))

\* TensorUnionFind.get_equiv_tensors, iterated to its end: the tensors it
\* yields (no weak reference of the set is dead)
get_equiv_tensors_yield(s) ==
    IF s.err # "" THEN Propagates(s)
    ELSE [U |-> s.U, err |-> "", val |-> s.U.esets[s.val]]

get_equiv_tensors_set(u, c) == get_equiv_tensors_yield(_get_equiv_set(c.U, u, c.val))

get_equiv_tensors(U, u, t) == get_equiv_tensors_set(u, CanonicalId(U, u, t))

\* dict.update: the entries of src replace those of tgt
DictUpdate(tgt, src) ==
    [k \in (DOMAIN tgt) \cup (DOMAIN src) |-> IF k \in DOMAIN src THEN src[k] ELSE tgt[k]]

\* TensorUnionFind.merge, the equivalence sets: s1, s2 the outcomes of
\* _get_equiv_set(tgt) and _get_equiv_set(src)
merge_equiv_update(u, src, s1, s2) ==
    IF s2.err # "" THEN Propagates(s2)
    ELSE UOk([s2.U EXCEPT !.esets[s1.val] = @ \cup s2.U.esets[s2.val],
                          !.tufs[u]._equiv_sets[src] = _INVALID_ENTRY], None)

merge_equiv_src(u, src, s1) ==
    IF s1.err # "" THEN Propagates(s1)
    ELSE merge_equiv_update(u, src, s1, _get_equiv_set(s1.U, u, src))

merge_equiv(U, u, tgt, src) == merge_equiv_src(u, src, _get_equiv_set(U, u, tgt))

\* TensorUnionFind.merge, the metadata: E the heap once self._metadata[tgt]
\* and self._metadata[src] have been evaluated
merge_metadata_update(E, u, tgt, src) ==
    IF ~E.tufs[u]._metadata[src].valid THEN URaise(E, "TypeError")
    ELSE merge_equiv([E EXCEPT !.mdicts[E.tufs[u]._metadata[tgt].ref] =
                                   DictUpdate(@, E.mdicts[E.tufs[u]._metadata[src].ref]),
                               !.tufs[u]._metadata[src] = _INVALID_ENTRY],
                     u, tgt, src)

merge_metadata_tgt(E, u, tgt, src) ==
    IF ~E.tufs[u]._metadata[tgt].valid THEN URaise(E, "AttributeError")
    ELSE merge_metadata_update(MetadataEntry(E, u, src), u, tgt, src)

merge_metadata(U, u, tgt, src) == merge_metadata_tgt(MetadataEntry(U, u, tgt), u, tgt, src)

merge_direction_x_first(U, u, x_root_int, y_root_int, f) ==
    merge_metadata([U EXCEPT !.tufs[u]._union_find_int = f.uf], u, x_root_int, y_root_int)

\* tgt, src = ... : f is the outcome of self._union_find_int.find(x_root_int)
merge_direction(U, u, x_root_int, y_root_int, f) ==
    IF f.val = x_root_int
    THEN merge_metadata([U EXCEPT !.tufs[u]._union_find_int = f.uf], u, x_root_int, y_root_int)
    ELSE merge_metadata([U EXCEPT !.tufs[u]._union_find_int = f.uf], u, y_root_int, x_root_int)

merge_merged(U, u, x_root_int, y_root_int, uf) ==
    merge_direction(U, u, x_root_int, y_root_int, UnionFind_find(uf, x_root_int))

\* from self._union_find_int.merge on: g1, g2 the outcomes of the two get_int
merge_ints(u, g1, g2) ==
    merge_merged(g2.U, u, g1.val, g2.val,
                 UnionFind_merge(g2.U.tufs[u]._union_find_int, g1.val, g2.val))

merge_y_root_int(u, y_root, g1) == merge_ints(u, g1, TensorIntMap_get_int(g1.U, u, y_root))

\* from "if x_root is y_root" on: r1, r2 the outcomes of the two find
merge_roots(u, r1, r2) ==
    IF r2.err # "" THEN Propagates(r2)
    ELSE IF r1.val = r2.val THEN UOk(r2.U, None)
    ELSE merge_y_root_int(u, r2.val, TensorIntMap_get_int(r2.U, u, r1.val))

merge_y_root(u, y, r1) ==
    IF r1.err # "" THEN Propagates(r1)
    ELSE merge_roots(u, r1, TensorUnionFind_find(r1.U, u, y))

\* TensorUnionFind.merge
TensorUnionFind_merge(U, u, x, y) == merge_y_root(u, y, TensorUnionFind_find(U, u, x))

\* ---- the operators of the library ----
\* return uf_a.find(a) is uf_a.find(a): r1, r2 the outcomes of the two calls
is_same_set_result(r1, r2) ==
    IF r2.err # "" THEN Propagates(r2)
    ELSE UOk(r2.U, r1.val = r2.val)

is_same_set_second(u, a, r1) ==
    IF r1.err # "" THEN Propagates(r1)
    ELSE is_same_set_result(r1, TensorUnionFind_find(r1.U, u, a))

\* is_same_set_impl
is_same_set_impl(U, a, b) ==
    IF _get_union_find(a) # _get_union_find(b) THEN URaise(U, "AssertionError")
    ELSE is_same_set_second(_get_union_find(a), a, TensorUnionFind_find(U, _get_union_find(a), a))

\* merge_impl: both union-finds are taken from a, so the assertion holds
merge_impl(U, a, b) == TensorUnionFind_merge(U, _get_union_find(a), a, b)

\* ---- copy ----
\* the TensorUnionFind object that uf.copy() makes
CopyUf == 3

\* UnionFind.copy: a new object with copies of parent and size
UnionFind_copy(uf) == [parent |-> uf.parent, size |-> uf.size]

\* TensorIntMap.copy for the map of u: the new map n has the counter and, as
\* attributes of the instance, copies of the two dictionaries
TensorIntMap_copy(U, u, n) ==
    [U EXCEPT !.intmaps = Put(@, n, U.intmaps[U.tufs[u]._tensor_int_map.dicts]),
              !.tufs = Put(@, n, [TensorUnionFind EXCEPT
                                     !._tensor_int_map =
                                         [_incrementing_id |-> U.tufs[u]._tensor_int_map._incrementing_id,
                                          dicts |-> n]])]

\* new_uf._metadata: a copy of every dict (the copy made for entry k of
\* object n is <<n, k>>), the sentinel for the invalidated entries
copy_metadata(U, u, n) ==
    [U EXCEPT !.tufs[n]._metadata =
                  [k \in DOMAIN U.tufs[u]._metadata |->
                      IF U.tufs[u]._metadata[k].valid THEN Entry(<<n, k>>) ELSE _INVALID_ENTRY],
              !.mdicts =
                  [r \in (DOMAIN U.mdicts) \cup
                         {<<n, k>> : k \in {j \in DOMAIN U.tufs[u]._metadata : U.tufs[u]._metadata[j].valid}} |->
                      IF r \in DOMAIN U.mdicts THEN U.mdicts[r]
                      ELSE U.mdicts[U.tufs[u]._metadata[r[2]].ref]]]

\* new_uf._equiv_sets = self._equiv_sets.copy(): a new dict that holds the
\* same set objects
copy_equiv_sets(U, u, n) == [U EXCEPT !.tufs[n]._equiv_sets = U.tufs[u]._equiv_sets]

copy_union_find_int(U, u, n) ==
    [U EXCEPT !.tufs[n]._union_find_int = UnionFind_copy(U.tufs[u]._union_find_int)]

\* TensorUnionFind.copy: u.copy() makes object n
TensorUnionFind_copy(U, u, n) ==
    UOk(copy_equiv_sets(copy_metadata(copy_union_find_int(TensorIntMap_copy(U, u, n), u, n), u, n), u, n), None)

\* d[k] = v on the dict that get_metadata returned: r is its outcome
set_item(r, k, v) ==
    IF r.err # "" THEN Propagates(r)
    ELSE UOk([r.U EXCEPT !.mdicts[r.val] = Put(@, k, v)], None)

\* ---- the state ----
VARIABLES
    era,                        \* sys.version_info, fixed for a run
    units,                      \* the live code objects, by identity
    cache,                      \* ContinueExecutionCache.cache
    generated_code_metadata,    \* ContinueExecutionCache.generated_code_metadata
    nextId,                     \* identity of the next code object created
    extRefs,                    \* code objects the frontend holds a reference to
    last,                       \* the last lookup call: request and outcome
    firstRet,                   \* history: the first successful call for (code, key): its line
                                \* and the code object it returned
    genReq,                     \* history: the request whose synthesis created a unit
    _version,                   \* t._version of each tensor
    intmaps,                    \* the dictionaries of the TensorIntMap objects, by identity
    tufs,                       \* the TensorUnionFind objects
    mdicts,                     \* the metadata dicts, by identity
    esets,                      \* the equivalence sets, by identity
    assigned,                   \* history: the ints get_int assigned
    merges,                     \* history: the pairs of (tensor, version) a merge call joined
    ufret,                      \* the last call on the union-find objects and its outcome
    reenter                     \* the cleanup accumulator and code options handed to the
                                \* re-entry strategies, and the calls made on them

cacheVars == <<era, units, cache, generated_code_metadata, nextId, extRefs, last, firstRet, genReq>>

ufVars == <<_version, intmaps, tufs, mdicts, esets, assigned, merges, ufret>>

vars == <<cacheVars, ufVars, reenter>>

RootA == 1
RootB == 2
Roots == {RootA, RootB}

GoodFlags == {CO_OPTIMIZED, CO_NEWLOCALS, CO_VARARGS, CO_VARKEYWORDS, CO_NESTED}

NoKey == Key(0, <<>>, 0, <<>>, <<>>, <<>>, <<>>, <<>>, <<>>)

NoCall == [called |-> FALSE, code |-> 0, lineno |-> 0, key |-> NoKey, err |-> "",
           res |-> 0, hops |-> 0, created |-> {}]

Tables == [units |-> units, cache |-> cache, meta |-> generated_code_metadata, nextId |-> nextId]

\* the module union_find just imported: no TensorUnionFind has been used
UfInit ==
    /\ _version = [t \in Tensors |-> 0]
    /\ intmaps = [m \in {ClassLevel} |-> [_tensor_to_int_and_version |-> <<>>, _int_to_tensor |-> <<>>]]
    /\ tufs = [u \in Ufs |-> TensorUnionFind]
    /\ mdicts = <<>>
    /\ esets = <<>>
    /\ assigned = {}
    /\ merges = {}
    /\ ufret = [op |-> "", u |-> 0, x |-> None, y |-> None, i |-> -1, err |-> "", val |-> None]

InitWith(e, codeA, codeB) ==
    /\ UfInit
    /\ reenter = [code_options |-> [co_varnames |-> <<"x">>, co_names |-> <<>>],
                  cleanup |-> <<>>, calls |-> <<>>]
    /\ era = e
    /\ units = [u \in Roots |-> IF u = RootA THEN codeA ELSE codeB]
    /\ cache = <<>>
    /\ generated_code_metadata = <<>>
    /\ nextId = 3
    /\ extRefs = Roots
    /\ last = NoCall
    /\ firstRet = <<>>
    /\ genReq = <<>>

\* the frontend receives the outcome r of its call lookup(code, lineno, *key)
\* and holds it in "last" until it takes it (Return)
Answer(code, lineno, key, r) ==
    /\ r.S.nextId - 3 <= MaxGen
    /\ units' = r.S.units
    /\ cache' = r.S.cache
    /\ generated_code_metadata' = r.S.meta
    /\ nextId' = r.S.nextId
    /\ extRefs' = IF r.err = "" THEN extRefs \cup {r.res} ELSE extRefs
    /\ last' = [called |-> TRUE, code |-> code, lineno |-> lineno, key |-> key,
                err |-> r.err, res |-> r.res, hops |-> r.hops, created |-> r.created]
    /\ firstRet' = IF r.err = "" /\ <<code, key>> \notin DOMAIN firstRet
                   THEN Put(firstRet, <<code, key>>, [res |-> r.res, lineno |-> lineno])
                   ELSE firstRet
    /\ genReq' = [u \in (DOMAIN genReq) \cup {c.id : c \in r.created} |->
                    IF u \in DOMAIN genReq THEN genReq[u]
                    ELSE LET c == CHOOSE c \in r.created : c.id = u
                         IN  [code |-> c.code, lineno |-> c.lineno, key |-> c.key]]
    /\ UNCHANGED era
    /\ UNCHANGED ufVars
    /\ UNCHANGED reenter

\* One call ContinueExecutionCache.lookup(code, lineno, *key) by the frontend
DoLookup(code, lineno, key) ==
    /\ ~last.called
    /\ code \in extRefs
    /\ Answer(code, lineno, key, lookup(era, Tables, code, lineno, key))

\* the frontend takes the outcome of the call
Return ==
    /\ last.called
    /\ last' = NoCall
    /\ UNCHANGED <<era, units, cache, generated_code_metadata, nextId, extRefs, firstRet, genReq>>
    /\ UNCHANGED ufVars
    /\ UNCHANGED reenter

\* ---- the requests of the frontend ----
\* offset of the instruction d places before the end of the unit's stream
EndOff(code, d) == InstSize * (Len(code.insts) - 1 - d)

PlainKey(offset) == Key(offset, <<>>, 1, <<"x">>, <<>>, <<>>, <<>>, <<>>, <<>>)
HookKey(offset, target, stack_index) ==
    Key(offset, <<target>>, 1, <<"x">>, <<>>, <<ReenterWith(stack_index, <<>>)>>, <<>>, <<>>, <<>>)

AbsentOffset == 1

IsGenerated(u) == u \in DOMAIN generated_code_metadata

\* Requests of the cache protocol: suspension points without active resources.
RequestKeys(u) ==
    LET code == units[u]
    IN  IF IsGenerated(u)
        THEN { PlainKey(EndOff(code, 2)),                   \* continue at RETURN_VALUE
               PlainKey(0),                                 \* an instruction of the prologue
               PlainKey(AbsentOffset) }                     \* no instruction there
        ELSE { PlainKey(EndOff(code, 3)),                   \* continue at LOAD_FAST y
               PlainKey(EndOff(code, 2)),                   \* continue at RETURN_VALUE
               PlainKey(AbsentOffset),                      \* no instruction there
               HookKey(EndOff(code, 2), EndOff(code, 1), 1) }   \* descriptor beyond nstack

Lookup == \E u \in extRefs, lineno \in Lines : \E key \in RequestKeys(u) : DoLookup(u, lineno, key)

CodeA(e) == RootCode(e, GoodFlags, <<"c">>, <<"b">>)
CodeB(e) == RootCode(e, {CO_OPTIMIZED, CO_NEWLOCALS, CO_GENERATOR}, <<>>, <<>>)

Init == \E e \in CacheEras : InitWith(e, CodeA(e), CodeB(e))

Next == Lookup \/ Return

Spec == Init /\ [][Next]_vars

\* ---- redirects with active resources (resource-target offsets in the key) ----
HookRequestKeys(u) ==
    LET code == units[u]
    IN  IF IsGenerated(u)
        THEN { HookKey(EndOff(code, 2), EndOff(code, 1), 0),    \* inside a with block
               HookKey(EndOff(code, 2), EndOff(code, 0), 0),    \* inside another with block
               HookKey(EndOff(code, 2), AbsentOffset, 0) }      \* no instruction at the handler
        ELSE { PlainKey(EndOff(code, 3)) }

LookupHook == \E u \in extRefs \ {RootB}, lineno \in Lines : \E key \in HookRequestKeys(u) : DoLookup(u, lineno, key)

NextHook == LookupHook \/ Return

SpecHook == Init /\ [][NextHook]_vars

\* ---- one synthesis, over a family of keys and original functions ----
NamePool == {"x", "z", "___stack0"}

RECURSIVE SeqsUpTo(_, _)
SeqsUpTo(S, n) ==
    IF n = 0 THEN {<<>>}
    ELSE SeqsUpTo(S, n - 1) \cup {Append(q, x) : q \in {r \in SeqsUpTo(S, n - 1) : Len(r) = n - 1}, x \in S}

GenKeys ==
    { Key(offset, hk[1], nstack, argnames, argnames_null, hk[2], sv, av, <<>>) :
        offset \in {0, 4, AbsentOffset},
        nstack \in 0..MaxNstack,
        argnames \in SeqsUpTo(NamePool, MaxArgs),
        argnames_null \in {<<>>, <<"y">>, <<"x">>, <<"y", "z">>},
        hk \in {<< <<>>, <<>> >>, << <<8>>, <<ReenterWith(0, <<>>)>> >>,
                << <<10, 8>>, <<ReenterWith(0, <<>>), ReenterWith(1, <<>>)>> >>},
        sv \in {<<>>, << <<0, <<"c1">>>> >>},
        av \in {<<>>, << <<"x", <<>>>> >>} }

FlagSets ==
    { GoodFlags,
      {CO_OPTIMIZED, CO_NEWLOCALS},
      {CO_OPTIMIZED, CO_VARARGS, CO_GENERATOR},
      {CO_OPTIMIZED, CO_COROUTINE},
      {CO_OPTIMIZED, CO_NEWLOCALS, CO_ITERABLE_COROUTINE},
      {CO_OPTIMIZED, CO_ASYNC_GENERATOR},
      {CO_NEWLOCALS, CO_VARARGS} }

InitGen ==
    \E e \in Eras, flags \in FlagSets, frees \in {<<>>, <<"b">>} :
        InitWith(e, RootCode(e, flags, IF frees = <<>> THEN <<>> ELSE <<"c">>, frees), CodeB(e))

Generate ==
    /\ ~last.called
    /\ \E lineno \in Lines : \E key \in GenKeys : DoLookup(RootA, lineno, key)

NextGen == Generate

SpecGen == InitGen /\ [][NextGen]_vars

\* ---- units with several re-entry descriptors, and redirects through them ----
MarkEras == Eras \ {310}

\* the offsets of the guard-entry markers of the prologue of generated unit u
MarkerOffsets(u) ==
    {InstSize * (j - 1) : j \in {k \in 1..(Len(units[u].insts) - Len(units[genReq[u].code].insts)) :
                                    units[u].insts[k].opname = "PUSH_EXC_INFO"}}

\* requests with descriptors at one or two stack positions, in both tuple
\* orders; on a generated unit, requests inside a block guarded by one of
\* its markers
MarkRequestKeys(u) ==
    LET code == units[u]
    IN  IF IsGenerated(u)
        THEN { PlainKey(EndOff(code, 2)) }
               \cup { HookKey(EndOff(code, 2), m, 0) : m \in MarkerOffsets(u) }
        ELSE { Key(EndOff(code, 3), <<EndOff(code, 1), EndOff(code, 0)>>, MaxNstack,
                   <<"x">>, <<>>, fns, <<>>, <<>>, <<>>) :
                 fns \in {<<ReenterWith(0, <<>>), ReenterWith(MaxNstack - 1, <<>>)>>,
                          <<ReenterWith(MaxNstack - 1, <<>>), ReenterWith(0, <<>>)>>} }
               \cup { HookKey(EndOff(code, 3), EndOff(code, 1), 0) }

LookupMark == \E u \in extRefs \ {RootB} : \E key \in MarkRequestKeys(u) : DoLookup(u, 1, key)

InitMark == \E e \in MarkEras : InitWith(e, CodeA(e), CodeB(e))

NextMark == LookupMark \/ Return

SpecMark == InitMark /\ [][NextMark]_vars

\* ---- the re-entry strategies on one cleanup accumulator ----
\* the largest stack position of a re-entry descriptor
MaxStackIndex == 2

\* the caller receives the outcome r of a strategy called for descriptor fn,
\* which expanded the given template
ReenterAnswer(strategy, fn, template, r) ==
    /\ r.ok
    /\ reenter' = [code_options |-> r.code_options,
                   cleanup |-> r.cleanup,
                   calls |-> Append(reenter.calls,
                                    [strategy |-> strategy, fn |-> fn, template |-> template,
                                     setup |-> r.setup, split |-> r.split,
                                     before |-> reenter.cleanup])]
    /\ UNCHANGED <<cacheVars, ufVars>>

\* descriptors are processed in increasing stack position
NextPositions ==
    {p \in 0..MaxStackIndex :
        \A i \in DOMAIN reenter.calls : reenter.calls[i].fn.stack_index < p}

\* fn(code_options, cleanup)
CallDirect(fn) ==
    ReenterAnswer("__call__", fn, WithTemplate(era, fn.stack_index),
        ReenterWith_call_cleanup(reenter.code_options, reenter.cleanup, ReenterWith_call(era, fn),
            _bytecode_from_template_with_split(WithTemplate(era, fn.stack_index), fn.stack_index)))

\* fn.try_finally(code_options, cleanup)
CallTryFinally(fn) ==
    ReenterAnswer("try_finally", fn,
        TryFinallyTemplate(era, fn.stack_index, CtxNames[fn.stack_index + 1]),
        try_finally(era, fn, reenter.code_options, reenter.cleanup))

\* fn.try_except_torch_function_mode(code_options, cleanup)
CallTryExcept(fn) ==
    ReenterAnswer("try_except_torch_function_mode", fn,
        TryExceptTemplate(era, fn.stack_index, "___prev_torch_function_mode_stack"),
        try_except_torch_function_mode(era, fn, reenter.code_options, reenter.cleanup))

TargetValues == {<<>>, <<"c1">>}

InitReenter == \E e \in Eras : InitWith(e, CodeA(e), CodeB(e))

NextReenter ==
    \/ \E p \in NextPositions, tv \in TargetValues : CallDirect(ReenterWith(p, tv))
    \/ \E p \in NextPositions, tv \in TargetValues : CallTryFinally(ReenterWith(p, tv))
    \/ \E p \in NextPositions : CallTryExcept(ReenterWith(p, <<>>))

SpecReenter == InitReenter /\ [][NextReenter]_vars

\* ---- one synthesis, over keys with unbound stack entries ----
\* the largest recorded index of an unbound stack entry
MaxNullIdx == 3

NullKeys ==
    { Key(4, hk[1], nstack, <<"x">>, <<>>, hk[2], sv, <<>>, null_idxes) :
        nstack \in 0..MaxNstack,
        null_idxes \in SeqsUpTo(0..MaxNullIdx, 2),
        hk \in {<< <<>>, <<>> >>, << <<8>>, <<ReenterWith(0, <<>>)>> >>},
        sv \in {<<>>, << <<1, <<"c1">>>> >>} }

GenerateNull ==
    /\ ~last.called
    /\ \E lineno \in Lines : \E key \in NullKeys : DoLookup(RootA, lineno, key)

NextNull == GenerateNull

SpecNull == InitReenter /\ [][NextNull]_vars

\* ---- one synthesis, over keys that disagree with the structure of the unit ----
\* keys whose offset, descriptor positions or resource-target offsets may
\* name nothing of the unit; the descriptors of a key sit at distinct positions
AgreeKeys ==
    { Key(offset, hk[1], nstack, <<"x">>, <<>>, hk[2], <<>>, <<>>, <<>>) :
        offset \in {0, 4, AbsentOffset},
        nstack \in 0..MaxNstack,
        hk \in {<< <<>>, <<>> >>} \cup
               { << <<t>>, <<ReenterWith(p, <<>>)>> >> : t \in {8, AbsentOffset}, p \in 0..MaxNstack } \cup
               { << <<t1, t2>>, <<ReenterWith(0, <<>>), ReenterWith(p, <<>>)>> >> :
                    t1 \in {10, AbsentOffset}, t2 \in {8, AbsentOffset + InstSize}, p \in 1..MaxNstack } }

GenerateAgree ==
    /\ ~last.called
    /\ \E lineno \in Lines : \E key \in AgreeKeys : DoLookup(RootA, lineno, key)

NextAgree == GenerateAgree

SpecAgree == InitReenter /\ [][NextAgree]_vars

\* ---- the lifetime of code objects ----
\* ExactWeakKeyDictionary: an entry goes when its key object dies; while the
\* entry is there the dictionary holds its value.  The memo entry of a unit
\* is a dict holding generated units, the metadata holds the original.
HeldByTables(c, m) ==
    {c[k][q] : <<k, q>> \in {<<k, q>> \in (DOMAIN c) \X UNION {DOMAIN c[k] : k \in DOMAIN c} : q \in DOMAIN c[k]}}
        \cup {m[k].code : k \in DOMAIN m}

Restrict(f, D) == [x \in (DOMAIN f) \cap D |-> f[x]]

\* the heap after every object without a referrer has been freed; refs are
\* the references held outside the tables
RECURSIVE Collect(_, _)
Collect(S, refs) ==
    LET live == (refs \cup HeldByTables(S.cache, S.meta)) \cap DOMAIN S.units
    IN  IF live = DOMAIN S.units THEN S
        ELSE Collect([S EXCEPT !.units = Restrict(@, live),
                               !.cache = Restrict(@, live),
                               !.meta = Restrict(@, live)], refs)

\* the frontend drops its references to a code object
Release(u) ==
    LET S == Collect(Tables, extRefs \ {u})
    IN  /\ ~last.called
        /\ u \in extRefs
        /\ extRefs' = extRefs \ {u}
        /\ units' = S.units
        /\ cache' = S.cache
        /\ generated_code_metadata' = S.meta
        /\ UNCHANGED <<era, nextId, last, firstRet, genReq>>
        /\ UNCHANGED ufVars
        /\ UNCHANGED reenter

GCKeys(u) == {PlainKey(EndOff(units[u], IF IsGenerated(u) THEN 2 ELSE 3))}

LookupGC == \E u \in extRefs, lineno \in Lines : \E key \in GCKeys(u) : DoLookup(u, lineno, key)

ReleaseAny == \E u \in extRefs : Release(u)

NextGC == LookupGC \/ Return \/ ReleaseAny

SpecGC == Init /\ [][NextGC]_vars

\* ---- the union-find objects: state and calls ----
UHeap ==
    [_version |-> _version, intmaps |-> intmaps, tufs |-> tufs, mdicts |-> mdicts,
     esets |-> esets, assigned |-> assigned]

NoUfCall == [op |-> "", u |-> 0, x |-> None, y |-> None, i |-> -1, err |-> "", val |-> None]

\* the caller receives the outcome r of its call and holds it in "ufret"
\* until it takes it (UfReturn)
UfAnswer(op, u, x, y, i, r) ==
    /\ _version' = r.U._version
    /\ intmaps' = r.U.intmaps
    /\ tufs' = r.U.tufs
    /\ mdicts' = r.U.mdicts
    /\ esets' = r.U.esets
    /\ assigned' = r.U.assigned
    /\ merges' = IF op = "merge" /\ r.err = ""
                  THEN merges \cup {{<<x, _version[x]>>, <<y, _version[y]>>}}
                  ELSE merges
    /\ ufret' = [op |-> op, u |-> u, x |-> x, y |-> y, i |-> i, err |-> r.err, val |-> r.val]
    /\ UNCHANGED cacheVars
    /\ UNCHANGED reenter

\* no call on the union-find objects is waiting to be taken
UfIdle == ufret.op = ""

\* the caller takes the outcome of the call
UfReturn ==
    /\ ~UfIdle
    /\ ufret' = NoUfCall
    /\ UNCHANGED <<_version, intmaps, tufs, mdicts, esets, assigned, merges>>
    /\ UNCHANGED cacheVars
    /\ UNCHANGED reenter

\* an in-place operation on tensor t bumps its version counter
Mutate(t) ==
    /\ _version[t] < MaxVersion
    /\ UfAnswer("mutate", 0, t, None, -1, UOk([UHeap EXCEPT !._version[t] = @ + 1], None))

\* uf.find(t) on the union-find of t
Find(t) == UfAnswer("find", _get_union_find(t), t, None, -1,
                    TensorUnionFind_find(UHeap, _get_union_find(t), t))

\* torch.ops.nested.merge(x, y)
Merge(x, y) == UfAnswer("merge", _get_union_find(x), x, y, -1, merge_impl(UHeap, x, y))

\* torch.ops.nested.is_same_set(x, y)
IsSameSet(x, y) == UfAnswer("is_same_set", _get_union_find(x), x, y, -1, is_same_set_impl(UHeap, x, y))

\* uf.get_metadata(t) on the union-find of t
GetMetadata(t) == UfAnswer("get_metadata", _get_union_find(t), t, None, -1,
                           get_metadata(UHeap, _get_union_find(t), t))

\* list(uf.get_equiv_tensors(t)) on the union-find of t
GetEquivTensors(t) == UfAnswer("get_equiv_tensors", _get_union_find(t), t, None, -1,
                               get_equiv_tensors(UHeap, _get_union_find(t), t))

\* uf._tensor_int_map.get_int(t) on the map of union-find u
GetInt(u, t) == UfAnswer("get_int", u, t, None, -1, TensorIntMap_get_int(UHeap, u, t))

\* uf._tensor_int_map.get_opt_tensor(i) on the map of union-find u
GetOptTensor(u, i) == UfAnswer("get_opt_tensor", u, None, None, i, TensorIntMap_get_opt_tensor(UHeap, u, i))

\* the ints handed out so far
KnownInts == {g.int : g \in assigned}

InitUF == InitWith(310, CodeA(310), CodeB(310))

\* ---- sets of tensors: merges and queries, no tensor is mutated ----
SetCalls ==
    \/ \E t \in Tensors : Find(t)
    \/ \E x, y \in Tensors : x # y /\ _get_union_find(x) = _get_union_find(y) /\ Merge(x, y)
    \/ \E x, y \in Tensors : x # y /\ IsSameSet(x, y)
    \/ \E t \in Tensors : GetMetadata(t)
    \/ \E t \in Tensors : GetEquivTensors(t)

NextUF == (UfIdle /\ SetCalls) \/ UfReturn

SpecUF == InitUF /\ [][NextUF]_vars

\* ---- versions of tensors: mutations, merges and finds ----
\* the tensors that are mutated in place
MutatedTensors == {"a", "b"}

VersionCalls ==
    \/ \E t \in MutatedTensors : Mutate(t)
    \/ \E t \in MutatedTensors \cup {"f"} : Find(t)
    \/ \E x, y \in MutatedTensors : x # y /\ Merge(x, y)

NextVer == (UfIdle /\ VersionCalls) \/ UfReturn

SpecVer == InitUF /\ [][NextVer]_vars

\* ---- the int maps of the two union-finds ----
MapCalls ==
    \/ \E t \in MutatedTensors : Mutate(t)
    \/ \E u \in Ufs, t \in MutatedTensors : GetInt(u, t)
    \/ \E u \in Ufs, i \in KnownInts : GetOptTensor(u, i)

NextMap == (UfIdle /\ MapCalls) \/ UfReturn

SpecMap == InitUF /\ [][NextMap]_vars

\* ---- a union-find and its copy ----
\* the tensors looked up in the two objects, and what is stored in the dicts
CopyTensors == {"a", "b"}
MetadataKey == "_max_seqlen"
MetadataValues == {"s0"}

\* the union-find and, once made, its copy
Copies == {GlobalUf, CopyUf} \cap DOMAIN tufs

\* new = uf.copy()
Copy ==
    /\ CopyUf \notin DOMAIN tufs
    /\ UfAnswer("copy", GlobalUf, None, None, -1, TensorUnionFind_copy(UHeap, GlobalUf, CopyUf))

FindIn(u, t) == UfAnswer("find", u, t, None, -1, TensorUnionFind_find(UHeap, u, t))

MergeIn(u, x, y) == UfAnswer("merge", u, x, y, -1, TensorUnionFind_merge(UHeap, u, x, y))

GetMetadataIn(u, t) == UfAnswer("get_metadata", u, t, None, -1, get_metadata(UHeap, u, t))

\* u.get_metadata(t)[MetadataKey] = v
SetMetadataIn(u, t, v) ==
    UfAnswer("set_metadata", u, t, None, -1, set_item(get_metadata(UHeap, u, t), MetadataKey, v))

GetEquivTensorsIn(u, t) ==
    UfAnswer("get_equiv_tensors", u, t, None, -1, get_equiv_tensors(UHeap, u, t))

CopyCalls ==
    \/ Copy
    \/ \E u \in Copies, t \in CopyTensors : FindIn(u, t)
    \/ \E u \in Copies, x, y \in CopyTensors : x # y /\ MergeIn(u, x, y)
    \/ \E u \in Copies, t \in CopyTensors : GetMetadataIn(u, t)
    \/ \E u \in Copies, t \in CopyTensors, v \in MetadataValues : SetMetadataIn(u, t, v)
    \/ \E u \in Copies, t \in CopyTensors : GetEquivTensorsIn(u, t)

NextCopy == (UfIdle /\ CopyCalls) \/ UfReturn

SpecCopy == InitUF /\ [][NextCopy]_vars

\* ======================= properties =======================
Called == last.called
Returned == last.called /\ last.err = ""
Failed == last.called /\ last.err # ""
\* the call was answered from the memo table of the unit it was made on
Hit == Returned /\ last.created = {} /\ last.hops = 0

\* ---- coordinates of a generated unit, from the shape of its stream ----
\* the original function a unit was synthesized from, and the length of the
\* prologue put in front of the copied instructions
OriginOf(u) == genReq[u].code
PrefixLen(u) == Len(units[u].insts) - Len(units[OriginOf(u)].insts)

\* the offset, in the original, of the copied instruction at offset o of u
InRootCoords(u, o) ==
    IF o % InstSize = 0 /\ o >= InstSize * PrefixLen(u) /\ o < InstSize * Len(units[u].insts)
    THEN o - InstSize * PrefixLen(u)
    ELSE NoOff

\* the stack indexes of the re-entry descriptors of a key, largest first
RECURSIVE Descending(_)
Descending(S) == IF S = {} THEN <<>> ELSE <<Max(S)>> \o Descending(S \ {Max(S)})

\* the resource-target offset t of a request on u, in the original's coordinates:
\* a guard-entry marker of the prologue stands for the target recorded for its
\* descriptor, a copied instruction for its original
TargetInRootCoords(u, t) ==
    LET k == (t \div InstSize) + 1
        gkey == genReq[u].key
        marks == {j \in 1..PrefixLen(u) : units[u].insts[j].opname = "PUSH_EXC_INFO"}
    IN  IF t % InstSize = 0 /\ k \in marks
        THEN HookTargetOffsets(gkey.setup_fns, gkey.setup_fn_target_offsets)[
                 Descending(DOMAIN HooksDict(gkey.setup_fns))[Cardinality({j \in marks : j <= k})]]
        ELSE InRootCoords(u, t)

TranslatedKey(u, key) ==
    [key EXCEPT !.offset = InRootCoords(u, @),
                !.setup_fn_target_offsets =
                    IF era >= 311 THEN [i \in DOMAIN @ |-> TargetInRootCoords(u, @[i])] ELSE @]

Translatable(u, key) ==
    /\ InRootCoords(u, key.offset) # NoOff
    /\ era >= 311 => \A i \in DOMAIN key.setup_fn_target_offsets :
                        TargetInRootCoords(u, key.setup_fn_target_offsets[i]) # NoOff

\* ---- C1 ----
\* C1: every successful lookup call returns the code object that the first
\* successful call for the same unit and key returned (whatever the line,
\* so in particular for the same line), and no two generated units come from
\* a synthesis for the same (root unit, line, key).
C1_SameUnitForSameRequest ==
    /\ Returned => last.res = firstRet[<<last.code, last.key>>].res
    /\ \A u1, u2 \in DOMAIN genReq :
          (genReq[u1].code = genReq[u2].code /\ genReq[u1].lineno = genReq[u2].lineno
              /\ genReq[u1].key = genReq[u2].key) => u1 = u2

\* a request repeated with the unit, line and key of an earlier successful one
C1_Witness ==
    /\ Hit
    /\ last.code = RootA
    /\ last.key = PlainKey(4)
    /\ firstRet[<<last.code, last.key>>].lineno = last.lineno

\* ---- C2 ----
\* C2: the origin recorded in the metadata of a generated unit is never a key
\* of the metadata table, and a unit returned by a lookup on a generated unit
\* has the origin of that unit (the root), not the unit itself, as origin.
C2_Rootedness ==
    /\ \A u \in DOMAIN generated_code_metadata :
          generated_code_metadata[u].code \notin DOMAIN generated_code_metadata
    /\ (Returned /\ IsGenerated(last.code)) =>
          /\ generated_code_metadata[last.res].code = generated_code_metadata[last.code].code
          /\ generated_code_metadata[last.res].code # last.code

\* a unit has just been synthesized for a request made on a generated unit
C2_Witness == Returned /\ IsGenerated(last.code) /\ last.created # {} /\ last.res # last.code

\* ---- C3 ----
\* C3: two successful requests on different generated units of one root that
\* name the same point of the root (equal keys once offsets are put in the
\* root's coordinates) were answered with the same unit, and exactly one unit
\* was synthesized for that point.
ConvergingRequests(q1, q2) ==
    /\ q1[1] \in DOMAIN genReq /\ q2[1] \in DOMAIN genReq
    /\ q1[1] # q2[1]
    /\ OriginOf(q1[1]) = OriginOf(q2[1])
    /\ TranslatedKey(q1[1], q1[2]) = TranslatedKey(q2[1], q2[2])

C3_Convergence ==
    \A q1, q2 \in DOMAIN firstRet :
        ConvergingRequests(q1, q2) =>
            /\ firstRet[q1].res = firstRet[q2].res
            /\ Cardinality({u \in DOMAIN genReq :
                              /\ genReq[u].code = OriginOf(q1[1])
                              /\ genReq[u].key = TranslatedKey(q1[1], q1[2])}) = 1

C3_Witness == \E q1, q2 \in DOMAIN firstRet : ConvergingRequests(q1, q2)

\* ---- C4 ----
\* the outcome of the request of the last call, made on the root of the unit
\* with the key put in the root's coordinates, in the tables as they are now
OnRoot == lookup(era, Tables, OriginOf(last.code), last.lineno, TranslatedKey(last.code, last.key))

RedirectedCall == Called /\ last.code \in DOMAIN genReq /\ Translatable(last.code, last.key)

\* C4: a lookup on a generated unit R, with a key whose offsets name copied
\* instructions (or guard-entry markers) of R, returns exactly when the lookup
\* on R's root with the translated key returns, and returns the same object.
C4_RedirectEquivalence ==
    RedirectedCall =>
        /\ (last.err = "") <=> (OnRoot.err = "")
        /\ last.err = "" => OnRoot.res = last.res

\* a redirected request with a resource-target offset was answered with a unit
C4_Witness == RedirectedCall /\ Returned /\ last.key.setup_fn_target_offsets # <<>> /\ era >= 311

\* ---- C5 ----
\* the request (unit, key) of the last call, as an index of firstRet
LastRequest == <<last.code, last.key>>

\* the last call returned, and its line is not the line of the first
\* successful call for its unit and key
OtherLine == Returned /\ last.lineno # firstRet[LastRequest].lineno

\* C5 as stated: the line is part of the memo key, so the same unit and key
\* with another line gives another generated unit, and the unit returned has
\* the line of the request as first line number.
C5_KeyedOnLine ==
    /\ Returned => units[last.res].co_firstlineno = last.lineno
    /\ OtherLine => last.res # firstRet[LastRequest].res

\* C5: the memo table is keyed on (unit, key), not on the line: a request for
\* the same unit and key with another line is answered with the unit of the
\* first request and synthesizes nothing; the first line number of every
\* generated unit is the line of the request whose synthesis created it.
C5_KeyedOnUnitAndKey ==
    /\ OtherLine => (last.res = firstRet[LastRequest].res /\ last.created = {})
    /\ \A u \in DOMAIN genReq : units[u].co_firstlineno = genReq[u].lineno

\* a request repeated on another line is answered with a unit whose first
\* line is the line of the first request
C5_Witness ==
    /\ OtherLine
    /\ last.res \in DOMAIN genReq
    /\ units[last.res].co_firstlineno = firstRet[LastRequest].lineno

\* ---- C6 ----
\* a root and the units generated from it
Family(a) == {a} \cup {u \in DOMAIN genReq : genReq[u].code = a}

\* C6: when the frontend holds no reference to a root or to any unit
\* generated from it, these units are freed and no entry of the memo table or
\* of the metadata table is keyed on them.
C6_WeakKeying ==
    \A a \in Roots :
        Family(a) \cap extRefs = {} =>
            /\ Family(a) \cap DOMAIN units = {}
            /\ Family(a) \cap DOMAIN cache = {}
            /\ Family(a) \cap DOMAIN generated_code_metadata = {}

\* ---- C7 ----
\* flags with a generator-like bit, or without the optimized bit
UnsupportedFlags(flags) ==
    \/ CO_GENERATOR \in flags
    \/ CO_COROUTINE \in flags
    \/ CO_ITERABLE_COROUTINE \in flags
    \/ CO_ASYNC_GENERATOR \in flags
    \/ CO_OPTIMIZED \notin flags

\* no unit was stored in a memo entry
NothingCached == \A c \in DOMAIN cache : cache[c] = <<>>

\* C7: a lookup (a miss) on a unit with a generator-like flag or without the
\* optimized flag fails, and no unit, metadata or memo entry is produced; a
\* generated unit never carries such flags.
C7_Rejection ==
    /\ (Called /\ UnsupportedFlags(units[last.code].co_flags)) =>
          /\ Failed
          /\ DOMAIN units = Roots
          /\ generated_code_metadata = <<>>
          /\ NothingCached
    /\ \A u \in DOMAIN generated_code_metadata : ~UnsupportedFlags(units[u].co_flags)

\* an iterable coroutine was handed to lookup
C7_Witness == Failed /\ CO_ITERABLE_COROUTINE \in units[last.code].co_flags

\* ---- C8 ----
\* a step in which a lookup call fails
FailingCall == ~last.called /\ last'.called /\ last'.err # ""

\* the outcome of a lookup made in the tables as they are after the step
LookupNext(code, lineno, key) ==
    lookup(era, [units |-> units', cache |-> cache', meta |-> generated_code_metadata',
                 nextId |-> nextId'], code, lineno, key)

\* C8: a failing lookup creates no unit, registers no metadata and stores
\* nothing in a memo entry (at most an empty memo entry appears); the same
\* request made again fails again, and every unit cached before is still
\* returned for its request.
C8_NoMasking ==
    [][FailingCall =>
          /\ units' = units
          /\ DOMAIN generated_code_metadata' = DOMAIN generated_code_metadata
          /\ DOMAIN cache \subseteq DOMAIN cache'
          /\ \A c \in DOMAIN cache' : cache'[c] = IF c \in DOMAIN cache THEN cache[c] ELSE <<>>
          /\ LookupNext(last'.code, last'.lineno, last'.key).err # ""
          /\ \A c \in DOMAIN cache : \A k \in DOMAIN cache[c] :
                /\ LookupNext(c, last'.lineno, k).err = ""
                /\ LookupNext(c, last'.lineno, k).res = cache[c][k]]_vars

\* a lookup on a generated unit has failed while units are cached
C8_Witness == Failed /\ IsGenerated(last.code) /\ ~NothingCached

\* ---- C9 ----
\* the request of the example: two stack slots, x live, no re-entry, nothing unbound
C9Request(k) ==
    /\ k.nstack = 2
    /\ k.argnames = <<"x">>
    /\ k.setup_fns = <<>>
    /\ k.argnames_null = <<>>
    /\ k.null_idxes = <<>>

\* the parameters of a code object without keyword-only and star parameters
Params(code) == SubSeq(code.co_varnames, 1, code.co_argcount)

IsLoad(i) == i.opname \in {"LOAD_FAST", "LOAD_CONST"}

\* instruction pos of unit u is an unconditional jump to the copy, in u, of
\* the instruction at offset o of the original of u
JumpsToCopyOf(u, pos, o) ==
    LET code == units[u]
        orig == units[OriginOf(u)]
        t == code.insts[pos].target
    IN  /\ code.insts[pos].opname = "JUMP_ABSOLUTE"
        /\ InRootCoords(u, t) = o
        /\ \E k \in 1..Len(orig.insts) :
              /\ orig.insts[k].offset = o
              /\ code.insts[(t \div InstSize) + 1].opname = orig.insts[k].opname
              /\ code.insts[(t \div InstSize) + 1].argval = orig.insts[k].argval

\* C9 as stated: the parameters are (___stack0, ___stack1, x) and the body
\* begins with three loads followed by a jump to the requested instruction.
C9_ThreeLoads ==
    (Returned /\ C9Request(last.key)) =>
        /\ Params(units[last.res]) = <<"___stack0", "___stack1", "x">>
        /\ \A i \in 1..3 : IsLoad(units[last.res].insts[i])
        /\ JumpsToCopyOf(last.res, 4, last.key.offset)

\* the operations that set the frame up, before the loads of the stack slots
FrameSetUp(orig) ==
    IF era >= 311
    THEN (IF orig.co_cellvars \o orig.co_freevars # <<>> THEN <<"COPY_FREE_VARS">> ELSE <<>>)
         \o <<"RESUME">>
    ELSE <<>>

\* the example of C9 without in-place rebuilds of context variables
C9Case == Returned /\ C9Request(last.key)
          /\ last.key.stack_ctx_vars = <<>> /\ last.key.argnames_ctx_vars = <<>>

\* C9: in the example, without context variables to rebuild, the parameters
\* are (___stack0, ___stack1, x) and the body is: the frame set-up of the era
\* (3.11+: COPY_FREE_VARS when the original has cell or free variables, then
\* RESUME), two loads, of ___stack0 and of ___stack1, and an unconditional jump
\* to the instruction at the requested offset; x is a parameter and is not loaded.
C9_PrologueShape ==
    C9Case =>
        LET code == units[last.res]
            h == Len(FrameSetUp(units[OriginOf(last.res)]))
        IN  /\ Params(code) = <<"___stack0", "___stack1", "x">>
            /\ PrefixLen(last.res) = h + 3
            /\ [i \in 1..h |-> code.insts[i].opname] = FrameSetUp(units[OriginOf(last.res)])
            /\ code.insts[h + 1].opname = "LOAD_FAST" /\ code.insts[h + 1].argval = "___stack0"
            /\ code.insts[h + 2].opname = "LOAD_FAST" /\ code.insts[h + 2].argval = "___stack1"
            /\ JumpsToCopyOf(last.res, h + 3, last.key.offset)

\* the example on an era with frame set-up, for an original with free variables
C9_Witness == C9Case /\ era >= 311 /\ units[OriginOf(last.res)].co_freevars # <<>>

\* ---- C10 ----
\* the elements of seq at the indexes I, in order
Pick(seq, I) ==
    [n \in 1..Cardinality(I) |-> seq[CHOOSE i \in I : Cardinality({j \in I : j <= i}) = n]]

\* the stack-slot names, then the live names that are no stack-slot name, each once
ExpectedParams(k) ==
    LET slots == [i \in 1..k.nstack |-> StackNames[i]]
    IN  slots \o Pick(k.argnames,
                      {i \in DOMAIN k.argnames :
                          /\ k.argnames[i] \notin Range(slots)
                          /\ \A j \in 1..(i - 1) : k.argnames[j] # k.argnames[i]})

\* C10: the parameters of the generated unit are ___stack0..___stack(nstack-1)
\* followed by the required-live names not already among them, in order and
\* without duplicates; the argument count is their number, the positional-only
\* and keyword-only counts are 0, and the flags are those of the original
\* without varargs and varkeywords.
C10_CallingConvention ==
    Returned =>
        LET code == units[last.res]
            orig == units[OriginOf(last.res)]
        IN  /\ Params(code) = ExpectedParams(last.key)
            /\ code.co_argcount = Len(ExpectedParams(last.key))
            /\ code.co_posonlyargcount = 0
            /\ code.co_kwonlyargcount = 0
            /\ code.co_flags = orig.co_flags \ {CO_VARARGS, CO_VARKEYWORDS}
            /\ CO_VARARGS \notin code.co_flags /\ CO_VARKEYWORDS \notin code.co_flags

\* a live name given twice, and a live name that is a stack-slot name
C10_Witness ==
    /\ Returned
    /\ last.key.nstack >= 1
    /\ Len(last.key.argnames) = 2
    /\ last.key.argnames[1] = last.key.argnames[2]
    /\ CO_VARARGS \in units[last.code].co_flags

\* ---- C11 ----
\* the position of the jump that ends the prologue of generated unit u
PrologueJump(u) ==
    CHOOSE p \in 1..PrefixLen(u) : units[u].insts[p].opname = "JUMP_ABSOLUTE"

\* the positions, before the jump, of a push-null immediately followed by a
\* store to v
NullPairs(u, v) ==
    {p \in 1..(PrologueJump(u) - 2) :
        /\ units[u].insts[p].opname = "PUSH_NULL"
        /\ units[u].insts[p + 1].opname = "STORE_FAST"
        /\ units[u].insts[p + 1].argval = v}

\* the stores to v in the prologue of u, before the jump
StoresTo(u, v) ==
    {p \in 1..(PrologueJump(u) - 1) :
        units[u].insts[p].opname = "STORE_FAST" /\ units[u].insts[p].argval = v}

\* C11: on 3.12+, every name of argnames_null has exactly one PUSH_NULL /
\* STORE_FAST pair in the prologue before the jump (and no other store), is
\* no parameter of the generated unit and stands in co_varnames after the
\* parameters; a key with a name in both argnames and argnames_null makes
\* the call fail, and no unit is generated.
C11_UnboundNames ==
    /\ (Returned /\ era >= 312) =>
          \A v \in Range(last.key.argnames_null) :
              /\ Cardinality(NullPairs(last.res, v)) = 1
              /\ (\A n \in Range(last.key.argnames_ctx_vars) : n[1] # v) =>
                     StoresTo(last.res, v) = {p + 1 : p \in NullPairs(last.res, v)}
              /\ v \notin Range(Params(units[last.res]))
              /\ \E i \in (units[last.res].co_argcount + 1)..Len(units[last.res].co_varnames) :
                     units[last.res].co_varnames[i] = v
    /\ (Called /\ Range(last.key.argnames) \cap Range(last.key.argnames_null) # {}) =>
          /\ Failed
          /\ generated_code_metadata = <<>>

\* a unit generated on 3.12 for a key that leaves two names unbound
C11_Witness ==
    /\ Returned /\ era >= 312
    /\ Len(last.key.argnames_null) = 2
    /\ last.key.nstack >= 1

\* a key with the same name required live and unbound was handed to lookup on 3.12
C11_WitnessConflict ==
    /\ Called /\ era >= 312
    /\ Range(last.key.argnames) \cap Range(last.key.argnames_null) # {}
    /\ ~Rejected(units[last.code])

\* ---- C12 ----
\* the copy, in generated unit u, of instruction k of its original
CopyOf(u, k) == units[u].insts[PrefixLen(u) + k]

\* the position, in the original of u, of the instruction u resumes at
TargetPos(u) ==
    CHOOSE k \in 1..Len(units[OriginOf(u)].insts) :
        units[OriginOf(u)].insts[k].offset = genReq[u].key.offset

\* C12: in every generated unit, a copied instruction before the jump target
\* has no line marker (3.11+: and no positions), and a copied instruction at
\* or after the jump target has the line marker (and positions) of the
\* original instruction.
C12_LineMonotonicity ==
    \A u \in DOMAIN generated_code_metadata :
        \A k \in 1..Len(units[OriginOf(u)].insts) :
            IF k < TargetPos(u)
            THEN /\ CopyOf(u, k).starts_line = NoLine
                 /\ era >= 311 => ~CopyOf(u, k).positions
            ELSE /\ CopyOf(u, k).starts_line = units[OriginOf(u)].insts[k].starts_line
                 /\ CopyOf(u, k).positions = units[OriginOf(u)].insts[k].positions

\* a unit resuming at an instruction that starts a line, after instructions
\* that started lines in the original, on an era with positions
C12_Witness ==
    \E u \in DOMAIN generated_code_metadata :
        /\ era >= 311
        /\ TargetPos(u) = 3
        /\ units[OriginOf(u)].insts[3].starts_line # NoLine
        /\ units[OriginOf(u)].insts[1].starts_line # NoLine
        /\ CopyOf(u, 1).starts_line = NoLine

\* ---- C13 ----
\* the re-entry descriptors of the request u was generated for were all used
\* and have targets t1..tk
HookTargets(u) == Range(genReq[u].key.setup_fn_target_offsets)

\* position pos of u holds a guard-entry marker of the prologue
IsGuardEntry(u, pos) ==
    /\ pos \in 1..PrefixLen(u)
    /\ units[u].insts[pos].opname = "PUSH_EXC_INFO"

\* C13: on 3.11+, in every generated unit, a copied instruction whose region
\* had a handler target ti in the original that is the target of a re-entry
\* descriptor of the request has its region on the guard-entry marker
\* synthesized for that descriptor (an instruction of the prologue, never the
\* copy of ti); the region of every other copied instruction is on the copy
\* of its original handler, or absent as in the original.
C13_RegionRemap ==
    era >= 311 =>
        \A u \in DOMAIN generated_code_metadata :
            \A k \in 1..Len(units[OriginOf(u)].insts) :
                LET o == units[OriginOf(u)].insts[k].exn_target
                    n == CopyOf(u, k).exn_target
                IN  IF o \in HookTargets(u)
                    THEN /\ n # o + InstSize * PrefixLen(u)
                         /\ IsGuardEntry(u, (n \div InstSize) + 1)
                         /\ TargetInRootCoords(u, n) = o
                    ELSE n = IF o = NoOff THEN NoOff ELSE o + InstSize * PrefixLen(u)

\* a unit generated for two re-entry descriptors, with a region on each of
\* the two markers
C13_Witness ==
    \E u \in DOMAIN generated_code_metadata :
        /\ era >= 311
        /\ Len(genReq[u].key.setup_fns) = 2
        /\ \E j, k \in 1..Len(units[OriginOf(u)].insts) :
              /\ CopyOf(u, j).exn_target # CopyOf(u, k).exn_target
              /\ IsGuardEntry(u, (CopyOf(u, j).exn_target \div InstSize) + 1)
              /\ IsGuardEntry(u, (CopyOf(u, k).exn_target \div InstSize) + 1)

\* a unit generated for one re-entry descriptor, with a region on its marker
\* and a region left on the copy of its original handler
C13_WitnessUnchanged ==
    \E u \in DOMAIN generated_code_metadata :
        /\ era >= 311
        /\ HookTargets(u) = {8}
        /\ CopyOf(u, 1).exn_target = 10 + InstSize * PrefixLen(u)
        /\ IsGuardEntry(u, (CopyOf(u, 3).exn_target \div InstSize) + 1)

\* ---- C14 ----
\* what an instruction does and the line it is marked with
Shape(i) == [opname |-> i.opname, argval |-> i.argval, starts_line |-> i.starts_line]

ShapeOf(stream) == [k \in 1..Len(stream) |-> Shape(stream[k])]

\* C14 as stated: the instruction sequence stored in the metadata of a
\* generated unit is a copy of the unit's final stream (the prologue followed
\* by the copied instructions, line markers stripped).
C14_SnapshotOfFinalStream ==
    \A u \in DOMAIN generated_code_metadata :
        ShapeOf(generated_code_metadata[u].instructions) = ShapeOf(units[u].insts)

\* C14: the instruction sequence stored in the metadata of a generated unit
\* is a copy of the stream of the original as it was before the synthesis:
\* as many instructions as the original has, each with the operation, the
\* offset, the line marker, the positions, the jump target and the handler
\* target of the original instruction; it holds no instruction of the
\* prologue and keeps the line markers the synthesis stripped.
C14_SnapshotOfOriginal ==
    \A u \in DOMAIN generated_code_metadata :
        LET snap == generated_code_metadata[u].instructions
            orig == units[generated_code_metadata[u].code].insts
        IN  /\ Len(snap) = Len(orig)
            /\ Len(snap) < Len(units[u].insts)
            /\ \A k \in 1..Len(orig) :
                  /\ Shape(snap[k]) = Shape(orig[k])
                  /\ snap[k].offset = orig[k].offset
                  /\ snap[k].positions = orig[k].positions
                  /\ snap[k].target = orig[k].target
                  /\ snap[k].exn_target = orig[k].exn_target

\* a unit whose copied instructions differ from the original's: a line marker
\* was stripped and a region was moved to a guard-entry marker
C14_Witness ==
    \E u \in DOMAIN generated_code_metadata :
        /\ era >= 311
        /\ genReq[u].key.setup_fns # <<>>
        /\ TargetPos(u) = 3
        /\ CopyOf(u, 1).starts_line # generated_code_metadata[u].instructions[1].starts_line
        /\ IsGuardEntry(u, (CopyOf(u, 3).exn_target \div InstSize) + 1)

\* ---- C19 ----
\* C19: a lookup call ends after at most one redirect: a call on a unit
\* without metadata takes none, a call that took one was made on a generated
\* unit, and the unit a redirect hands to the nested lookup is never a key of
\* the metadata table (so the nested lookup takes the root case or is
\* answered from the memo table).
C19_SingleHop ==
    /\ Called =>
          /\ last.hops <= 1
          /\ last.hops = 1 => IsGenerated(last.code)
          /\ ~IsGenerated(last.code) => last.hops = 0
    /\ \A u \in DOMAIN generated_code_metadata :
          RedirectTarget(u, generated_code_metadata[u]) \notin DOMAIN generated_code_metadata

\* a call on a generated unit was redirected and the nested lookup was
\* answered from the memo table of the root
C19_Witness ==
    /\ Returned /\ IsGenerated(last.code)
    /\ last.hops = 1
    /\ last.created = {}

\* a call on a generated unit was redirected and the nested lookup took the
\* root case
C19_WitnessRootCase ==
    /\ Returned /\ IsGenerated(last.code)
    /\ last.hops = 1
    /\ Cardinality(last.created) = 1

\* ---- C20 ----
\* the outcome of find_new_offset for offset o requested on generated unit u
Translation(u, o) ==
    find_new_offset(cleaned_instructions(units[u]), generated_code_metadata[u].instructions, o)

\* the positions of the instructions of u at offset o
InstsAt(u, o) == {k \in 1..Len(units[u].insts) : units[u].insts[k].offset = o}

\* the position, in the original of u, of the instruction as far from the
\* end of its stream as instruction k is from the end of the stream of u
SameDistanceFromEnd(u, k) ==
    Len(units[OriginOf(u)].insts) - (Len(units[u].insts) - k)

\* the offsets a request may name on u: those of its instructions, the odd
\* ones between them and the first offset past its end
OffsetsAround(u) == 0..(InstSize * Len(units[u].insts))

\* the stream of u with the offset of its last instruction given to the one
\* before it as well (a stream find_new_offset would reject, which assembly
\* never produces)
TwoAtLastOffset(u) ==
    [cleaned_instructions(units[u]) EXCEPT
        ![Len(units[u].insts) - 1].offset = units[u].insts[Len(units[u].insts)].offset]

\* C20: for a generated unit, the offset of a copied instruction is
\* translated to the offset, in the original, of the instruction at the same
\* distance from the end of the stream, which has the same operation; an
\* offset of no instruction, or of an instruction of the prologue, makes the
\* translation, and the lookup, fail. A redirected lookup that returns gives
\* the unit generated for the translated offset. An assembled unit has no
\* two instructions at one offset; on a stream that has, the translation fails.
C20_OffsetTranslation ==
    /\ \A u \in DOMAIN generated_code_metadata : \A o \in OffsetsAround(u) :
          /\ Cardinality(InstsAt(u, o)) <= 1
          /\ IF \E k \in InstsAt(u, o) : k > PrefixLen(u)
             THEN LET k == CHOOSE k \in InstsAt(u, o) : TRUE
                      a == units[OriginOf(u)].insts[SameDistanceFromEnd(u, k)]
                  IN  /\ Translation(u, o).err = ""
                      /\ Translation(u, o).new_offset = a.offset
                      /\ a.opname = units[u].insts[k].opname
             ELSE Translation(u, o).err # ""
    /\ \A u \in DOMAIN generated_code_metadata :
          find_new_offset(TwoAtLastOffset(u), generated_code_metadata[u].instructions,
                          units[u].insts[Len(units[u].insts)].offset).err # ""
    /\ (Called /\ IsGenerated(last.code)
          /\ ~(\E k \in InstsAt(last.code, last.key.offset) : k > PrefixLen(last.code))) =>
          Failed
    /\ (Returned /\ last.hops = 1) =>
          LET k == CHOOSE k \in InstsAt(last.code, last.key.offset) : TRUE
          IN  genReq[last.res].key.offset =
                  units[OriginOf(last.code)].insts[SameDistanceFromEnd(last.code, k)].offset

\* a request on a generated unit with a frame set-up in its prologue, at the
\* copy of the instruction at offset 6 of the original, has returned a unit
C20_Witness ==
    /\ Returned /\ IsGenerated(last.code)
    /\ era >= 311
    /\ last.hops = 1
    /\ genReq[last.res].key.offset = 6
    /\ last.key.offset = 6 + InstSize * PrefixLen(last.code)

\* a request on a generated unit at an offset of its prologue has failed
C20_WitnessPrologue ==
    /\ Failed /\ IsGenerated(last.code)
    /\ \E k \in InstsAt(last.code, last.key.offset) : k <= PrefixLen(last.code)

\* a request on a generated unit at an offset of no instruction has failed
C20_WitnessAbsent ==
    /\ Failed /\ IsGenerated(last.code)
    /\ InstsAt(last.code, last.key.offset) = {}

\* ======================= properties of the union-find =======================
UfCalled(op) == ufret.op = op
UfReturned(op) == ufret.op = op /\ ufret.err = ""
UfFailed(op) == ufret.op = op /\ ufret.err # ""

\* a tensor at the version it has now
Node(t) == <<t, _version[t]>>

\* the versions of tensors joined with those of S by the merge calls made so
\* far, directly or through others
RECURSIVE JoinedWith(_)
JoinedWith(S) ==
    LET T == S \cup UNION {p \in merges : p \cap S # {}}
    IN  IF T = S THEN S ELSE JoinedWith(T)

SetOf(x) == JoinedWith({Node(x)})

\* ---- C15 ----
\* C15: is_same_set(x, y) returns true exactly when x and y were merged,
\* directly or transitively; for two tensors never merged it returns false.
C15_IsSameSet ==
    UfReturned("is_same_set") => (ufret.val <=> Node(ufret.y) \in SetOf(ufret.x))

\* ---- C18 ----
\* the int was handed out by get_int for tensor t at the version t has now
AssignedNow(i, t) ==
    \E g \in assigned : g.int = i /\ g.tensor = t /\ g.version = _version[t]

\* C18: over any sequence of get_int calls, through one TensorIntMap or
\* several, two distinct (tensor, version) pairs never receive the same int;
\* get_int of a tensor returns an int assigned to the tensor's current version
\* (so a mutated tensor gets a fresh one); get_opt_tensor(i) returns the
\* tensor that was assigned i, at its current version, or None.
C18_UniqueInts ==
    /\ \A g, h \in assigned :
            g.int = h.int => g.tensor = h.tensor /\ g.version = h.version
    /\ UfReturned("get_int") => AssignedNow(ufret.val, ufret.x)
    /\ (UfReturned("get_opt_tensor") /\ ufret.val # None) => AssignedNow(ufret.i, ufret.val)

\* ---- C16 ----
\* the root of int i in the int union-find of u
RECURSIVE RootOf(_, _)
RootOf(u, i) ==
    LET parent == tufs[u]._union_find_int.parent
    IN  IF i \notin DOMAIN parent \/ parent[i] = i THEN i ELSE RootOf(u, parent[i])

\* the canonical entry of the set of t in u: the (tensor, version) that u's
\* map gave the root int to
Canonical(u, t) ==
    LET d == intmaps[tufs[u]._tensor_int_map.dicts]._tensor_to_int_and_version
    IN  IF t \notin DOMAIN d THEN {}
        ELSE {<<g.tensor, g.version>> :
                g \in {h \in assigned : h.map = u /\ h.int = RootOf(u, d[t][1])}}

Stale(c) == c[2] # _version[c[1]]

\* C16: find(t) of a tensor whose current version was never merged (a tensor
\* mutated after its merges is in a new singleton set) returns t; find(t) of
\* a member of a set whose canonical entry was mutated raises the "canonical
\* tensor of this set has been mutated" error; find(t) of a member of a set
\* whose canonical entry was not mutated returns the canonical tensor, also
\* when other members were mutated.
C16_VersionedFind ==
    UfCalled("find") =>
        /\ SetOf(ufret.x) = {Node(ufret.x)} => UfReturned("find") /\ ufret.val = ufret.x
        /\ \A c \in Canonical(ufret.u, ufret.x) :
                /\ Stale(c) => ufret.err = "RuntimeError"
                /\ ~Stale(c) => UfReturned("find") /\ ufret.val = c[1]

\* find(b) raised because the canonical entry a of {a, b} was mutated
C16_WitnessRaises ==
    /\ UfCalled("find") /\ ufret.err = "RuntimeError"
    /\ \E c \in Canonical(ufret.u, ufret.x) : Stale(c) /\ c[1] # ufret.x

\* find(a) returned the canonical a although the other member was mutated
C16_WitnessMemberMutated ==
    /\ UfReturned("find") /\ ufret.val = ufret.x
    /\ \E n \in SetOf(ufret.x) : Stale(n)

\* ---- C17 ----
\* the tensors that are looked up in union-find u
TensorsOf(u) == {t \in Tensors : _get_union_find(t) = u}

\* the int a tensor has in the tables of u's map, once it has one
HasInt(u, t) ==
    t \in DOMAIN intmaps[tufs[u]._tensor_int_map.dicts]._tensor_to_int_and_version

IntOf(u, t) == intmaps[tufs[u]._tensor_int_map.dicts]._tensor_to_int_and_version[t][1]

\* the id is the canonical entry of its set in u
IsCanonicalId(u, i) == RootOf(u, i) = i

\* every recorded entry of the table is valid exactly at the canonical ids,
\* and two valid entries hold two different objects
ValidAtCanonical(u, table) ==
    /\ \A i \in DOMAIN table : table[i].valid <=> IsCanonicalId(u, i)
    /\ \A i, j \in DOMAIN table :
            (i # j /\ table[i].valid /\ table[j].valid) => table[i].ref # table[j].ref

\* the members of one set, as the merge calls made them, have one canonical id
OneCanonicalPerSet(u) ==
    \A x, y \in TensorsOf(u) :
        (HasInt(u, x) /\ HasInt(u, y) /\ Node(y) \in SetOf(x))
            => RootOf(u, IntOf(u, x)) = RootOf(u, IntOf(u, y))

\* C17: with unmutated live tensors, after any sequence of merge, get_metadata
\* and get_equiv_tensors calls, an id recorded in _metadata (likewise in
\* _equiv_sets) has a valid entry if and only if it is the canonical id of its
\* set, the members of one set have one canonical id, and get_metadata(t)
\* returns the dict object stored at the canonical id of the set of t, the same
\* object for every member of the set.
C17_OneMetadataPerSet ==
    /\ \A u \in Ufs :
            /\ ValidAtCanonical(u, tufs[u]._metadata)
            /\ ValidAtCanonical(u, tufs[u]._equiv_sets)
            /\ OneCanonicalPerSet(u)
    /\ UfCalled("get_metadata") =>
            /\ UfReturned("get_metadata")
            /\ \A y \in TensorsOf(ufret.u) :
                    (HasInt(ufret.u, y) /\ Node(y) \in SetOf(ufret.x)) =>
                        /\ RootOf(ufret.u, IntOf(ufret.u, y)) \in DOMAIN tufs[ufret.u]._metadata
                        /\ tufs[ufret.u]._metadata[RootOf(ufret.u, IntOf(ufret.u, y))]
                               = Entry(ufret.val)
            /\ ufret.val \in DOMAIN mdicts

\* get_metadata returned for a member that is not the canonical entry of its
\* set of three, whose own entry has been invalidated
C17_Witness ==
    /\ UfReturned("get_metadata")
    /\ ~IsCanonicalId(ufret.u, IntOf(ufret.u, ufret.x))
    /\ IntOf(ufret.u, ufret.x) \in DOMAIN tufs[ufret.u]._metadata
    /\ ~tufs[ufret.u]._metadata[IntOf(ufret.u, ufret.x)].valid
    /\ Cardinality(SetOf(ufret.x)) = 3

\* ---- C21 ----
\* a request on a generated unit, from 3.11 on, whose offset and
\* resource-target offsets all name instructions of that unit
TargetsRequest ==
    /\ RedirectedCall
    /\ era >= 311
    /\ last.key.setup_fn_target_offsets # <<>>

\* C21: from 3.11 on, whatever requests went through a generated unit R
\* before, a request on R whose resource-target offsets are offsets of
\* instructions of R never fails for want of an entry of the remap table, and
\* the unit it returns is the one of the root for the key with every
\* resource-target offset in root coordinates.
C21_TargetTranslation ==
    TargetsRequest =>
        /\ last.err # "KeyError"
        /\ Returned => /\ last.res \in DOMAIN genReq
                       /\ genReq[last.res].key.setup_fn_target_offsets
                             = TranslatedKey(last.code, last.key).setup_fn_target_offsets

\* ---- C22 ----
\* the remap table of generated unit u has been built
TableBuilt(u) == ~generated_code_metadata[u].block_target_offset_remap.none

\* the copied instructions of u whose original is guarded by a region with
\* target offset t, t a resource target of the request u was generated for:
\* the synthesis pointed their region at the marker of the descriptor of t
GuardedBy(u, t) ==
    {j \in (PrefixLen(u) + 1)..Len(units[u].insts) :
        units[OriginOf(u)].insts[j - PrefixLen(u)].exn_target = t}

\* C22: once the remap table of a unit generated with re-entry descriptors
\* is built, it maps the offset of every guard-entry marker of the prologue
\* to the original target offset of the descriptor whose epilogue holds the
\* marker, for one or several descriptors given in any order.
C22_MarkerMatching ==
    \A u \in DOMAIN genReq :
        TableBuilt(u) =>
            /\ MarkerOffsets(u) \subseteq DOMAIN generated_code_metadata[u].block_target_offset_remap.map
            /\ \A t \in Range(genReq[u].key.setup_fn_target_offsets) :
                  \A j \in GuardedBy(u, t) :
                      /\ units[u].insts[j].exn_target \in MarkerOffsets(u)
                      /\ generated_code_metadata[u].block_target_offset_remap.map[
                             units[u].insts[j].exn_target] = t

\* a unit generated with two descriptors given with the deeper one first,
\* whose table has been built
C22_Witness ==
    \E u \in DOMAIN genReq :
        /\ TableBuilt(u)
        /\ Cardinality(MarkerOffsets(u)) = 2
        /\ genReq[u].key.setup_fns[1].stack_index > genReq[u].key.setup_fns[2].stack_index
        /\ genReq[u].key.setup_fn_target_offsets[1] # genReq[u].key.setup_fn_target_offsets[2]

\* ---- C23 ----
\* the stack position of the descriptor whose template made instruction i
\* (template instructions carry the identity TemplateId(s, k))
PositionOf(i) == ((0 - i.id) \div IdStride) - 1
IndexInTemplate(i) == (0 - i.id) % IdStride

\* the epilogue the call returned: what its split put after the second marker
EpilogueOf(c) == c.split.epilogue

\* the epilogues of the calls, last call first
RECURSIVE EpiloguesLastFirst(_)
EpiloguesLastFirst(calls) ==
    IF calls = <<>> THEN <<>>
    ELSE EpilogueOf(calls[Len(calls)]) \o EpiloguesLastFirst(SubSeq(calls, 1, Len(calls) - 1))

\* the instructions of the deeper descriptor come first, those of one
\* descriptor in the order of its template
DeepestFirst(insts) ==
    \A j \in 1..(Len(insts) - 1) :
        \/ PositionOf(insts[j]) > PositionOf(insts[j + 1])
        \/ /\ PositionOf(insts[j]) = PositionOf(insts[j + 1])
           /\ IndexInTemplate(insts[j]) < IndexInTemplate(insts[j + 1])

\* C23: each of the three re-entry strategies puts its epilogue in front of
\* the cleanup accumulator and leaves what was accumulated before behind it,
\* in its order; after descriptors at positions p1 < ... < pk the accumulator
\* reads epilogue(pk), ..., epilogue(p1).
C23_CleanupOrdering ==
    /\ reenter.cleanup = EpiloguesLastFirst(reenter.calls)
    /\ DeepestFirst(SelectSeq(reenter.cleanup, LAMBDA i : i.id # NoId))
    /\ \A n \in DOMAIN reenter.calls :
          SubSeq(reenter.cleanup,
                 Len(reenter.cleanup) - Len(reenter.calls[n].before) - Len(EpilogueOf(reenter.calls[n])) + 1,
                 Len(reenter.cleanup) - Len(reenter.calls[n].before))
             = EpilogueOf(reenter.calls[n])

\* three descriptors handled by the three strategies, one each
C23_Witness ==
    /\ Len(reenter.calls) = 3
    /\ {reenter.calls[n].strategy : n \in DOMAIN reenter.calls}
          = {"__call__", "try_finally", "try_except_torch_function_mode"}

\* ---- C27 ----
\* the template code the expander works on: the compiled template and the
\* discard appended to it
TemplateCode(c) == Append(c.template, create_instruction("POP_TOP"))

\* the position of the placeholder load in the template
DummyIdx(c) ==
    CHOOSE d \in DOMAIN c.template :
        /\ IsDummyLoad(c.template[d])
        /\ \A k \in 1..(d - 1) : ~IsDummyLoad(c.template[k])

\* instruction i of the template as the expander leaves it when it is not one
\* of the two replaced: the depth of its exception region is raised by the
\* stack position, nothing else changes
Kept(i, stack_index) ==
    IF i.exn_target # NoId THEN [i EXCEPT !.exn_depth = @ + stack_index] ELSE i

\* instruction m is the no-op marker put in place of instruction i
MarkerFor(m, i) == m.opname = "NOP" /\ m.id = i.id

\* the two halves, one after the other, are the template code with the
\* placeholder load and the discard after it replaced by markers
HalvesAreTemplate(c, halves) ==
    /\ Len(halves) = Len(TemplateCode(c))
    /\ \A k \in DOMAIN halves :
          IF k \in {DummyIdx(c), DummyIdx(c) + 1}
          THEN MarkerFor(halves[k], TemplateCode(c)[k])
          ELSE halves[k] = Kept(TemplateCode(c)[k], c.fn.stack_index)

\* C27 as stated: the setup stream is everything up to and including the
\* first marker and the epilogue stream is everything after the second marker.
C27_EpilogueAfterSecondMarker ==
    \A n \in DOMAIN reenter.calls :
        /\ Len(reenter.calls[n].split.setup) = DummyIdx(reenter.calls[n])
        /\ Len(reenter.calls[n].split.epilogue)
              = Len(TemplateCode(reenter.calls[n])) - DummyIdx(reenter.calls[n]) - 1
        /\ \A k \in DOMAIN reenter.calls[n].split.epilogue :
              reenter.calls[n].split.epilogue[k]
                 = Kept(TemplateCode(reenter.calls[n])[DummyIdx(reenter.calls[n]) + 1 + k],
                        reenter.calls[n].fn.stack_index)

\* C27: the expander replaces the placeholder load and the discard after it
\* by two no-op markers and splits between them: the setup stream is
\* everything up to and including the first marker, the epilogue stream
\* starts with the second marker and is everything from it on; the two
\* halves together are the template code in its order, nothing dropped or
\* duplicated, with only the depth of exception regions raised by the stack
\* position.
C27_SplitBetweenMarkers ==
    \A n \in DOMAIN reenter.calls :
        /\ Len(reenter.calls[n].split.setup) = DummyIdx(reenter.calls[n])
        /\ MarkerFor(reenter.calls[n].split.setup[DummyIdx(reenter.calls[n])],
                     reenter.calls[n].template[DummyIdx(reenter.calls[n])])
        /\ MarkerFor(reenter.calls[n].split.epilogue[1],
                     TemplateCode(reenter.calls[n])[DummyIdx(reenter.calls[n]) + 1])
        /\ HalvesAreTemplate(reenter.calls[n],
                             reenter.calls[n].split.setup \o reenter.calls[n].split.epilogue)

\* a template with an exception region was split for a stack position above 0
C27_Witness ==
    \E n \in DOMAIN reenter.calls :
        /\ reenter.calls[n].fn.stack_index > 0
        /\ reenter.calls[n].strategy = "try_finally"
        /\ \E k \in DOMAIN reenter.calls[n].split.epilogue :
              /\ reenter.calls[n].split.epilogue[k].exn_target # NoId
              /\ reenter.calls[n].split.epilogue[k].exn_depth >= reenter.calls[n].fn.stack_index

\* ---- C24 ----
OpNames(insts) == [k \in DOMAIN insts |-> insts[k].opname]

\* the operations of the epilogue of the direct re-entry of a descriptor, as
\* the split of its template gives it
EpilogueOps(s) == OpNames(ReenterWith_call(era, ReenterWith(s, <<>>)).epilogue)

\* the operations of the accumulated cleanup of a request: the epilogues of
\* its descriptors, deepest stack position first
CleanupOps(key) ==
    Concat([n \in 1..Cardinality(DOMAIN HooksDict(key.setup_fns)) |->
              EpilogueOps(Descending(DOMAIN HooksDict(key.setup_fns))[n])])

\* the prologue of u after its jump
AfterJump(u) == SubSeq(units[u].insts, PrologueJump(u) + 1, PrefixLen(u))

IsRaiseNone(pair) ==
    /\ pair[1].opname = "LOAD_CONST" /\ pair[1].argval = "None"
    /\ pair[2].opname = "RAISE_VARARGS" /\ pair[2].arg = 1

\* C24: a generated stream is the prologue up to its jump, then, only when
\* re-entry produced cleanup instructions, the accumulated cleanup in its
\* order followed by LOAD_CONST None / RAISE_VARARGS 1, then the copied
\* original instructions; without cleanup the copied instructions follow the
\* jump directly and no raise sequence is emitted.
C24_PrologueTail ==
    \A u \in DOMAIN genReq :
        /\ \A p \in 1..(PrologueJump(u) - 1) : units[u].insts[p].opname # "RAISE_VARARGS"
        /\ IF genReq[u].key.setup_fns = <<>>
           THEN AfterJump(u) = <<>>
           ELSE /\ Len(AfterJump(u)) = Len(CleanupOps(genReq[u].key)) + 2
                /\ OpNames(SubSeq(AfterJump(u), 1, Len(AfterJump(u)) - 2)) = CleanupOps(genReq[u].key)
                /\ IsRaiseNone(SubSeq(AfterJump(u), Len(AfterJump(u)) - 1, Len(AfterJump(u))))
        /\ \A k \in DOMAIN units[OriginOf(u)].insts :
              /\ CopyOf(u, k).opname = units[OriginOf(u)].insts[k].opname
              /\ CopyOf(u, k).argval = units[OriginOf(u)].insts[k].argval

\* a unit generated with two descriptors: two epilogues and the raise
\* sequence stand between the jump and the copied instructions
C24_Witness ==
    \E u \in DOMAIN genReq :
        /\ Cardinality(DOMAIN HooksDict(genReq[u].key.setup_fns)) = 2
        /\ Len(AfterJump(u)) > 2

\* a unit generated without descriptors: the copy follows the jump
C24_WitnessNoCleanup ==
    \E u \in DOMAIN genReq :
        /\ genReq[u].key.setup_fns = <<>>
        /\ PrologueJump(u) = PrefixLen(u)
        /\ genReq[u].key.nstack > 0

\* ---- C25 ----
\* the positions of the loads of ___stack{i} in the prologue of u, before its jump
StackLoads(u, i) ==
    {p \in 1..(PrologueJump(u) - 1) :
        units[u].insts[p].opname = "LOAD_FAST" /\ units[u].insts[p].argval = StackName(i)}

\* the number of push-nulls that stand immediately before position p
RECURSIVE NullsBefore(_, _)
NullsBefore(u, p) ==
    IF p > 1 /\ units[u].insts[p - 1].opname = "PUSH_NULL" THEN 1 + NullsBefore(u, p - 1) ELSE 0

\* every stack slot is loaded once, in increasing order
SlotsLoadedInOrder(u) ==
    /\ \A i \in 0..(genReq[u].key.nstack - 1) : Cardinality(StackLoads(u, i)) = 1
    /\ \A i, j \in 0..(genReq[u].key.nstack - 1) :
          i < j => \A p \in StackLoads(u, i), q \in StackLoads(u, j) : p < q

\* C25 as stated: one push-null immediately before the load of slot i
\* exactly when i is among the recorded unbound indexes, and every recorded
\* index yields exactly one push-null.
C25_NullBeforeRecordedSlot ==
    \A u \in DOMAIN genReq :
        /\ SlotsLoadedInOrder(u)
        /\ \A i \in 0..(genReq[u].key.nstack - 1) : \A p \in StackLoads(u, i) :
              NullsBefore(u, p) = IF i \in Range(genReq[u].key.null_idxes) THEN 1 ELSE 0
        /\ Range(genReq[u].key.null_idxes) \subseteq 0..(genReq[u].key.nstack - 1)

\* the stack slot that follows the unbound entry recorded as null_idxes[j]:
\* the recorded index counts the unbound entries before it as well
SlotAfter(key, j) == key.null_idxes[j] - (j - 1)

\* the recorded entries the walk over the stack reaches: each one, and every
\* one before it, lies before some slot, in the order of the slots
Reached(key, j) ==
    \A n \in 1..j :
        /\ SlotAfter(key, n) \in 0..(key.nstack - 1)
        /\ n > 1 => SlotAfter(key, n) >= SlotAfter(key, n - 1)

\* C25: the prologue loads ___stack0..___stack(nstack-1) once each, in
\* increasing order; the recorded unbound indexes are positions in the
\* captured stack, unbound entries included, so the push-nulls immediately
\* before the load of slot i are as many as the recorded entries null_idxes[j]
\* (j counted from 0) with null_idxes[j] - j = i that the walk reaches: several
\* for adjacent unbound entries, and none for a recorded entry that lies after
\* the last slot or out of order.
C25_NullBeforeRealIndex ==
    \A u \in DOMAIN genReq :
        /\ SlotsLoadedInOrder(u)
        /\ \A i \in 0..(genReq[u].key.nstack - 1) : \A p \in StackLoads(u, i) :
              NullsBefore(u, p)
                 = Cardinality({j \in DOMAIN genReq[u].key.null_idxes :
                                  Reached(genReq[u].key, j) /\ SlotAfter(genReq[u].key, j) = i})

\* two adjacent unbound entries below slot 1: two push-nulls before its load
C25_Witness ==
    \E u \in DOMAIN genReq :
        /\ genReq[u].key.null_idxes = <<1, 2>>
        /\ genReq[u].key.nstack = 2
        /\ \E p \in StackLoads(u, 1) : NullsBefore(u, p) = 2

\* ---- C26 ----
\* the key names an offset, a descriptor position or, on 3.11+, a
\* resource-target offset that the unit code does not have
Disagrees(e, code, key) ==
    \/ key.offset \notin {code.insts[k].offset : k \in DOMAIN code.insts}
    \/ \E n \in DOMAIN key.setup_fns : key.setup_fns[n].stack_index \notin 0..(key.nstack - 1)
    \/ /\ e >= 311
       /\ \E n \in DOMAIN key.setup_fn_target_offsets :
             key.setup_fn_target_offsets[n] \notin {code.insts[k].offset : k \in DOMAIN code.insts}

\* the call answered by this step is a generation from a root unit for a new key
GeneratesFromRoot ==
    /\ ~last.called
    /\ last'.called
    /\ last'.code \notin DOMAIN generated_code_metadata
    /\ ~Rejected(units[last'.code])
    /\ last'.code \in DOMAIN cache => last'.key \notin DOMAIN cache[last'.code]

\* C26: a generation fails, and produces no unit (no code object, no
\* metadata, no memo entry for the key), whenever the offset of the key is
\* not the offset of an instruction of the unit, whenever a descriptor has a
\* stack position outside 0..nstack-1, and, on 3.11+, whenever the
\* resource-target offset of a descriptor is not the offset of an instruction.
C26_KeyStructureAgreement ==
    [][ (GeneratesFromRoot /\ Disagrees(era, units[last'.code], last'.key))
          => /\ last'.err # ""
             /\ units' = units
             /\ generated_code_metadata' = generated_code_metadata
             /\ nextId' = nextId
             /\ last'.key \notin DOMAIN cache'[last'.code] ]_vars

\* a key whose only disagreement is an absent resource-target offset, on 3.11+
C26_Witness ==
    /\ last.called
    /\ era >= 311
    /\ last.key.offset = 4
    /\ last.key.nstack = 2
    /\ last.key.setup_fns = <<ReenterWith(0, <<>>), ReenterWith(1, <<>>)>>
    /\ last.key.setup_fn_target_offsets = <<10, AbsentOffset + InstSize>>
    /\ last.err = "KeyError"
    /\ DOMAIN units = Roots

\* a descriptor left unused: its stack position is not below nstack
C26_WitnessUnusedDescriptor ==
    /\ last.called
    /\ last.key.offset = 4
    /\ last.key.nstack = 1
    /\ last.key.setup_fns = <<ReenterWith(1, <<>>)>>
    /\ last.key.setup_fn_target_offsets = <<8>>
    /\ last.err = "AssertionError"

\* the offset of the key is the offset of no instruction
C26_WitnessAbsentOffset ==
    /\ last.called
    /\ last.key.offset = AbsentOffset
    /\ last.key.setup_fns = <<>>
    /\ last.err = "StopIteration"

\* on 3.10 the resource-target offsets are not looked up
C26_WitnessBlockEra ==
    /\ last.called
    /\ era = 310
    /\ last.key.setup_fn_target_offsets = <<AbsentOffset>>
    /\ last.err = ""

\* ---- C28 ----
\* what uf.find(t) gives on heap U, on the union-find of t: [err, val]
FindOn(U, t) ==
    [err |-> TensorUnionFind_find(U, _get_union_find(t), t).err,
     val |-> TensorUnionFind_find(U, _get_union_find(t), t).val]

\* the ints of the set of the canonical int i of int union-find uf
IntsOf(uf, i) == {j \in DOMAIN uf.parent : UnionFind_find(uf, j).val = i}

\* the size recorded for each canonical int is the number of ints of its set
SizesCount(uf) ==
    \A i \in DOMAIN uf.parent : uf.parent[i] = i => uf.size[i] = Cardinality(IntsOf(uf, i))

\* the step is a call merge(x, y) that returned
MergeReturns(x, y) == ufret'.op = "merge" /\ ufret'.err = "" /\ ufret'.x = x /\ ufret'.y = y

\* C28: after merge(x, y) on live unmutated tensors, find(x) and find(y)
\* return the same canonical tensor, every tensor that was in either set has
\* that canonical tensor, the tensors of the other sets keep theirs, and in
\* the int union-find the size recorded for each canonical int is the number
\* of ints in its set.
C28_Merge ==
    [][ \A x, y \in Tensors :
          MergeReturns(x, y) =>
              /\ FindOn(UHeap', x).err = ""
              /\ FindOn(UHeap', y) = FindOn(UHeap', x)
              /\ \A t \in Tensors :
                    IF Node(t)' \in SetOf(x)'
                    THEN FindOn(UHeap', t) = FindOn(UHeap', x)
                    ELSE FindOn(UHeap', t) = FindOn(UHeap, t)
              /\ \A u \in Ufs : SizesCount(tufs'[u]._union_find_int) ]_vars

\* ---- C29 ----
\* what find, get_metadata and get_equiv_tensors give for tensor t on object
\* u of heap U: the exception or the tensor, the contents of the dict, the
\* tensors yielded
FindGives(U, u, t) ==
    [err |-> TensorUnionFind_find(U, u, t).err, val |-> TensorUnionFind_find(U, u, t).val]

MetadataGives(U, u, t) ==
    [err |-> get_metadata(U, u, t).err,
     val |-> IF get_metadata(U, u, t).err = ""
             THEN get_metadata(U, u, t).U.mdicts[get_metadata(U, u, t).val]
             ELSE <<>>]

EquivTensorsGives(U, u, t) ==
    [err |-> get_equiv_tensors(U, u, t).err,
     val |-> IF get_equiv_tensors(U, u, t).err = "" THEN get_equiv_tensors(U, u, t).val ELSE {}]

\* the step is a call on object u that leaves the answers of object w as they were
LeavesAlone(u, w) ==
    (ufret'.op \in {"find", "merge", "get_metadata", "set_metadata", "get_equiv_tensors"}
        /\ ufret'.u = u)
      => \A t \in CopyTensors :
            /\ FindGives(UHeap', w, t) = FindGives(UHeap, w, t)
            /\ MetadataGives(UHeap', w, t) = MetadataGives(UHeap, w, t)
            /\ EquivTensorsGives(UHeap', w, t) = EquivTensorsGives(UHeap, w, t)

\* the dicts, sets and int tables that object u holds
RefsOf(table) == {table[i].ref : i \in {j \in DOMAIN table : table[j].valid}}

\* the union-find and its copy hold no dict, set or int table in common
SharesNothing ==
    CopyUf \in DOMAIN tufs =>
        /\ RefsOf(tufs[GlobalUf]._metadata) \cap RefsOf(tufs[CopyUf]._metadata) = {}
        /\ RefsOf(tufs[GlobalUf]._equiv_sets) \cap RefsOf(tufs[CopyUf]._equiv_sets) = {}
        /\ tufs[GlobalUf]._tensor_int_map.dicts # tufs[CopyUf]._tensor_int_map.dicts

\* a step leaves alone the object it is not a call on
StepLeavesOtherAlone ==
    CopyUf \in DOMAIN tufs => (LeavesAlone(CopyUf, GlobalUf) /\ LeavesAlone(GlobalUf, CopyUf))

\* C29: after new = uf.copy(), a call of merge, find, get_metadata (with a
\* mutation of the returned dict) or get_equiv_tensors on new leaves unchanged
\* what find, get_metadata and get_equiv_tensors return on uf, and the other
\* way round; the two objects share no mutable set, dict or map.
C29_CopyIndependence == []SharesNothing /\ [][StepLeavesOtherAlone]_vars

====
